---- MODULE Spec2Model ----
(***************************************************************************)
(* Model of the SupplierCheck-UK fetch cache (packages/db/src/cache.ts):   *)
(* a TTL-bound store of raw upstream responses in one SQLite table,        *)
(* cache_entries, keyed by the SHA-256 of "source:request:url".            *)
(*                                                                         *)
(* getOrFetchRaw is an async function.  Everything up to                   *)
(* `await this.fetchFn(...)` runs in one turn of the event loop (action    *)
(* Call), and the continuation after the await runs in a later turn        *)
(* (FetchResolve, or FetchReject when the promise rejects).  Other calls,  *)
(* cleanExpired(), clear() and the passing of time may come in between.    *)
(***************************************************************************)
EXTENDS Integers, Sequences, FiniteSets, TLC

\* ---------------------------------------------------------------- bounds
MaxTime == 2      \* the clock runs from 0 to MaxTime seconds
MaxCalls == 3     \* getOrFetchRaw is called at most MaxCalls times

\* ------------------------------------------------------ program constants
MsPerSecond == 1000

\* Callers whose getOrFetchRaw calls may overlap
Procs == {"A", "B"}

\* JavaScript's undefined and null, and SQL NULL
Undefined == [undefined |-> TRUE]
Null == [null |-> TRUE]

\* ------------------------------------------------------------ input sets
\* Field values of the FetchRequests the callers make
Sources == {"ch"}
RequestKinds == {"get", "list"}
Urls == {"u"}

\* headers?: Record<string, string>, as the ordered list of its entries.
\* Each caller sends the headers it holds: A none, B its credentials.
CallerHeaders ==
    [p \in Procs |-> IF p = "A" THEN Undefined
                     ELSE [entries |-> <<<<"Authorization", "k">>>>]]

HeaderValues == { CallerHeaders[p] : p \in Procs }

\* ttlSeconds of a request
TtlValues == {1, 2}

FetchRequests ==
    { [source |-> s, request |-> r, url |-> u, ttlSeconds |-> t, headers |-> h] :
        s \in Sources, r \in RequestKinds, u \in Urls,
        t \in TtlValues, h \in HeaderValues }

\* What the injected fetch function may resolve with; it may also reject.
UpstreamResponses ==
    { [status |-> 200, body |-> "x", contentType |-> "application/json"],
      [status |-> 500, body |-> "e", contentType |-> "text/plain"] }

UpstreamErrors == {"ECONNRESET"}

\* The requests caller p makes
RequestsOf(p) == { req \in FetchRequests : req.headers = CallerHeaders[p] }

\* Field values for generateCacheKey on its own; some contain the ':' that
\* it uses as its separator.
KeySources == {"a", "a:b", "b"}
KeyRequests == {"c", "b:c", "b"}
KeyUrls == {"u", "c:u"}

KeyTriples ==
    { [source |-> s, request |-> r, url |-> u] :
        s \in KeySources, r \in KeyRequests, u \in KeyUrls }

\* ------------------------------------------------------------ pure parts
\* crypto.createHash('sha256').update(data).digest('hex'), taken to be
\* collision-free: the digest determines the data it was computed from.
Sha256Hex(data) == [sha256 |-> data]

RECURSIVE JsonMembers(_)
JsonMembers(h) ==
    IF h = <<>> THEN ""
    ELSE "\"" \o h[1][1] \o "\":\"" \o h[1][2] \o "\""
         \o (IF Len(h) > 1 THEN "," ELSE "") \o JsonMembers(Tail(h))

\* JSON.stringify of a Record<string, string>
JsonStringify(h) == [text |-> "{" \o JsonMembers(h.entries) \o "}"]

\* Variant: the request's headers are hashed into the key as well.
generateCacheKeyWithHeaders(p) ==
    LET data == p.source \o ":" \o p.request \o ":" \o p.url \o ":"
                \o (IF p.headers = Undefined THEN ""
                    ELSE JsonStringify(p.headers).text)
    IN  Sha256Hex(data)

generateCacheKey(p) ==
    LET data == p.source \o ":" \o p.request \o ":" \o p.url
    IN  Sha256Hex(data)

\* ----------------------------------------------------------------- state
VARIABLES
    now,          \* Date.now(), in milliseconds
    initialized,  \* Cache.initialized
    migrations,   \* ids recorded in table _migrations
    store,        \* rows of table cache_entries
    pc,           \* per caller: "idle", "fetching", "done" or "failed"
    params,       \* per caller: the FetchRequest of its current/last call
    inflight,     \* per caller: the arguments its pending fetchFn call got
    result,       \* per caller: what its last call returned or threw
    fetchCount,   \* number of times fetchFn has been invoked
    removed,      \* return value of the last cleanExpired()
    calls,        \* number of getOrFetchRaw calls made
    tripleA,      \* generateCacheKey on its own: the first argument,
    tripleB,      \*   the second argument,
    keyA,         \*   the key of the first
    keyB,         \*   and the key of the second
    input,        \* a function of packages/core on its own: its arguments
    output,       \*   and what the call returned and left in its arguments
    memNow,       \* Date.now() as the connectors' in-memory Cache reads it
    memStore,     \* Cache.store of services/connectors: its CacheEntry rows
    memPending,   \* per caller: the awaited factory() or fetchFn() call
    memResult     \* per caller: what its last connector/cache call returned

cacheVars == <<now, initialized, migrations, store, pc, params, inflight,
               result, fetchCount, removed, calls>>
keyVars == <<tripleA, tripleB, keyA, keyB>>
pureVars == <<input, output>>
memVars == <<memNow, memStore, memPending, memResult>>
vars == <<cacheVars, keyVars, pureVars, memVars>>

NoResult == [kind |-> "none"]
NoFetch == [pending |-> FALSE]

InitCache ==
    /\ now = 0
    /\ initialized = FALSE
    /\ migrations = {}
    /\ store = {}
    /\ pc = [p \in Procs |-> "idle"]
    /\ params = [p \in Procs |-> Undefined]
    /\ inflight = [p \in Procs |-> NoFetch]
    /\ result = [p \in Procs |-> NoResult]
    /\ fetchCount = 0
    /\ removed = 0
    /\ calls = 0

\* Nothing has been passed to generateCacheKey on its own.
InitNoKeys ==
    /\ tripleA = Undefined /\ tripleB = Undefined
    /\ keyA = Undefined /\ keyB = Undefined

\* new Cache() of services/connectors: an empty Map, nobody waiting.
InitNoMem ==
    /\ memNow = 0
    /\ memStore = {}
    /\ memPending = [p \in Procs |-> Undefined]
    /\ memResult = [p \in Procs |-> Undefined]

\* No function of packages/core has been called on its own.
InitNoCall ==
    /\ input = Undefined
    /\ output = Undefined

Init ==
    /\ InitCache
    /\ InitNoMem
    /\ InitNoKeys
    /\ InitNoCall

\* --------------------------------------------------------------- helpers
\* runMigrations: apply every migration whose id is not yet recorded.
\* 001_create_cache_entries creates an empty table if there is none.
runMigrations(applied) == applied \cup {"001_create_cache_entries"}

\* Cache.ensureInitialized
ensureInitialized ==
    /\ initialized' = TRUE
    /\ migrations' = IF initialized THEN migrations ELSE runMigrations(migrations)

\* Variant: the comparison with the expiry is the wrong way round.
getCacheEntryInverted(rows, cacheKey, t) ==
    LET found == { r \in rows : r.cache_key = cacheKey /\ r.expires_at < t }
    IN  IF found = {} THEN Null ELSE CHOOSE r \in found : TRUE

\* Variant: an entry is still served at the instant it expires.
getCacheEntryInclusive(rows, cacheKey, t) ==
    LET found == { r \in rows : r.cache_key = cacheKey /\ r.expires_at >= t }
    IN  IF found = {} THEN Null ELSE CHOOSE r \in found : TRUE

\* Variant: the WHERE clause does not name the key.
getCacheEntryAnyKey(rows, cacheKey, t) ==
    LET found == { r \in rows : r.expires_at > t }
    IN  IF found = {} THEN Null ELSE CHOOSE r \in found : TRUE

\* Cache.getCacheEntry: SELECT * WHERE cache_key = ? AND expires_at > now
getCacheEntry(rows, cacheKey, t) ==
    LET found == { r \in rows : r.cache_key = cacheKey /\ r.expires_at > t }
    IN  IF found = {} THEN Null ELSE CHOOSE r \in found : TRUE

\* Variant: a plain INSERT into a table without the key constraint.
InsertOnly(rows, row) == rows \cup {row}

\* INSERT OR REPLACE on a table whose PRIMARY KEY is cache_key: rows that
\* conflict on the key are deleted, then the new row is inserted.
InsertOrReplace(rows, row) ==
    { r \in rows : r.cache_key # row.cache_key } \cup {row}

\* Cache.setCacheEntry
setCacheEntry(rows, e, t) ==
    LET expiresAt == t + e.ttlSeconds * MsPerSecond
    IN  InsertOrReplace(rows,
            [cache_key |-> e.cacheKey, source |-> e.source,
             request |-> e.request, url |-> e.url, status |-> e.status,
             body |-> e.body, content_type |-> e.contentType,
             headers |-> e.headers, created_at |-> t,
             expires_at |-> expiresAt])

\* The arguments getOrFetchRaw passes to fetchFn on a miss
FetchArgs(req) == [pending |-> TRUE, url |-> req.url, headers |-> req.headers]

\* The FetchResponse returned on a hit
HitResponse(cached, cacheKey) ==
    [kind |-> "response", status |-> cached.status, body |-> cached.body,
     contentType |-> cached.content_type, cacheKey |-> cacheKey, hit |-> TRUE]

\* The FetchResponse returned on a miss
MissResponse(response, cacheKey) ==
    [kind |-> "response", status |-> response.status, body |-> response.body,
     contentType |-> response.contentType, cacheKey |-> cacheKey, hit |-> FALSE]

\* --------------------------------------------------------------- actions
\* Variant: one lock for the whole cache, held while a fetch is pending.
CallUnderGlobalLock(p, req) ==
    /\ \A q \in Procs : pc[q] # "fetching"
    /\ pc[p] # "fetching"
    /\ calls < MaxCalls
    /\ calls' = calls + 1
    /\ ensureInitialized
    /\ LET cacheKey == generateCacheKey(req)
           cached == getCacheEntry(store, cacheKey, now)
       IN  IF cached # Null
           THEN /\ result' = [result EXCEPT ![p] = HitResponse(cached, cacheKey)]
                /\ pc' = [pc EXCEPT ![p] = "done"]
                /\ params' = [params EXCEPT ![p] = Undefined]
                /\ UNCHANGED <<inflight, fetchCount>>
           ELSE /\ inflight' = [inflight EXCEPT ![p] = FetchArgs(req)]
                /\ fetchCount' = fetchCount + 1
                /\ result' = [result EXCEPT ![p] = NoResult]
                /\ pc' = [pc EXCEPT ![p] = "fetching"]
                /\ params' = [params EXCEPT ![p] = req]
    /\ UNCHANGED <<now, store, removed>>
    /\ UNCHANGED <<keyVars, pureVars, memVars>>

\* Variant: a hit renews the entry for the ttl of the request.
CallRenewingOnHit(p, req) ==
    /\ pc[p] # "fetching"
    /\ calls < MaxCalls
    /\ calls' = calls + 1
    /\ ensureInitialized
    /\ LET cacheKey == generateCacheKey(req)
           cached == getCacheEntry(store, cacheKey, now)
       IN  IF cached # Null
           THEN /\ result' = [result EXCEPT ![p] = HitResponse(cached, cacheKey)]
                /\ pc' = [pc EXCEPT ![p] = "done"]
                /\ params' = [params EXCEPT ![p] = Undefined]
                /\ store' = InsertOrReplace(store,
                       [cached EXCEPT !.expires_at = now + req.ttlSeconds * MsPerSecond])
                /\ UNCHANGED <<inflight, fetchCount>>
           ELSE /\ inflight' = [inflight EXCEPT ![p] = FetchArgs(req)]
                /\ fetchCount' = fetchCount + 1
                /\ result' = [result EXCEPT ![p] = NoResult]
                /\ pc' = [pc EXCEPT ![p] = "fetching"]
                /\ params' = [params EXCEPT ![p] = req]
                /\ store' = store
    /\ UNCHANGED <<now, removed>>
    /\ UNCHANGED <<keyVars, pureVars, memVars>>

\* getOrFetchRaw up to the await: a hit returns at once, a miss invokes
\* fetchFn(url, headers) and suspends.
Call(p, req) ==
    /\ pc[p] # "fetching"
    /\ calls < MaxCalls
    /\ calls' = calls + 1
    /\ ensureInitialized
    /\ LET cacheKey == generateCacheKey(req)
           cached == getCacheEntry(store, cacheKey, now)
       IN  IF cached # Null
           THEN /\ result' = [result EXCEPT ![p] = HitResponse(cached, cacheKey)]
                /\ pc' = [pc EXCEPT ![p] = "done"]
                /\ params' = [params EXCEPT ![p] = Undefined]
                /\ UNCHANGED <<inflight, fetchCount>>
           ELSE /\ inflight' = [inflight EXCEPT ![p] = FetchArgs(req)]
                /\ fetchCount' = fetchCount + 1
                /\ result' = [result EXCEPT ![p] = NoResult]
                /\ pc' = [pc EXCEPT ![p] = "fetching"]
                /\ params' = [params EXCEPT ![p] = req]
    /\ UNCHANGED <<now, store, removed>>
    /\ UNCHANGED <<keyVars, pureVars, memVars>>

\* getOrFetchRaw after the await, the promise having resolved: store the
\* response under the key, stamped with the time of the write.
FetchResolve(p, response) ==
    /\ pc[p] = "fetching"
    /\ LET req == params[p]
           cacheKey == generateCacheKey(req)
       IN  /\ store' = setCacheEntry(store,
                  [cacheKey |-> cacheKey, source |-> req.source,
                   request |-> req.request, url |-> req.url,
                   status |-> response.status, body |-> response.body,
                   contentType |-> response.contentType,
                   headers |-> IF req.headers # Undefined
                               THEN JsonStringify(req.headers) ELSE Null,
                   ttlSeconds |-> req.ttlSeconds], now)
           /\ result' = [result EXCEPT ![p] = MissResponse(response, cacheKey)]
    /\ pc' = [pc EXCEPT ![p] = "done"]
    /\ inflight' = [inflight EXCEPT ![p] = NoFetch]
    /\ params' = [params EXCEPT ![p] = Undefined]
    /\ UNCHANGED <<now, initialized, migrations, fetchCount, removed, calls>>
    /\ UNCHANGED <<keyVars, pureVars, memVars>>

\* Variant: the rejection is caught and stored as an entry of status 0.
FetchRejectCaching(p, err) ==
    /\ pc[p] = "fetching"
    /\ result' = [result EXCEPT ![p] = [kind |-> "error", error |-> err]]
    /\ pc' = [pc EXCEPT ![p] = "failed"]
    /\ inflight' = [inflight EXCEPT ![p] = NoFetch]
    /\ store' = setCacheEntry(store,
           [cacheKey |-> generateCacheKey(params[p]), source |-> params[p].source,
            request |-> params[p].request, url |-> params[p].url,
            status |-> 0, body |-> err, contentType |-> "text/plain",
            headers |-> Null, ttlSeconds |-> params[p].ttlSeconds], now)
    /\ params' = [params EXCEPT ![p] = Undefined]
    /\ UNCHANGED <<now, initialized, migrations, fetchCount, removed, calls>>
    /\ UNCHANGED <<keyVars, pureVars, memVars>>

\* getOrFetchRaw after the await, the promise having rejected: the await
\* throws, nothing after it runs and the call rejects with the same error.
FetchReject(p, err) ==
    /\ pc[p] = "fetching"
    /\ result' = [result EXCEPT ![p] = [kind |-> "error", error |-> err]]
    /\ pc' = [pc EXCEPT ![p] = "failed"]
    /\ inflight' = [inflight EXCEPT ![p] = NoFetch]
    /\ params' = [params EXCEPT ![p] = Undefined]
    /\ UNCHANGED <<now, initialized, migrations, store, fetchCount,
                   removed, calls>>
    /\ UNCHANGED <<keyVars, pureVars, memVars>>

\* Variant: the entry that expires at this instant is kept.
DeleteExpiredStrict(rows, t) == { r \in rows : ~(r.expires_at < t) }

\* DELETE FROM cache_entries WHERE expires_at <= now
DeleteExpired(rows, t) == { r \in rows : ~(r.expires_at <= t) }

\* Cache.cleanExpired
CleanExpired ==
    /\ ensureInitialized
    /\ store' = DeleteExpired(store, now)
    /\ removed' = Cardinality(store) - Cardinality(store')
    /\ UNCHANGED <<now, pc, params, inflight, result, fetchCount, calls>>
    /\ UNCHANGED <<keyVars, pureVars, memVars>>

\* Variant: clear() deletes only what has expired.
ClearExpiredOnly ==
    /\ ensureInitialized
    /\ store' = DeleteExpired(store, now)
    /\ UNCHANGED <<now, pc, params, inflight, result, fetchCount, removed, calls>>
    /\ UNCHANGED <<keyVars, pureVars, memVars>>

\* Cache.clear
Clear ==
    /\ ensureInitialized
    /\ store' = {}
    /\ UNCHANGED <<now, pc, params, inflight, result, fetchCount, removed, calls>>
    /\ UNCHANGED <<keyVars, pureVars, memVars>>

\* Time passes
Tick ==
    /\ now + MsPerSecond <= MaxTime * MsPerSecond
    /\ now' = now + MsPerSecond
    /\ UNCHANGED <<initialized, migrations, store, pc, params, inflight, result,
                   fetchCount, removed, calls>>
    /\ UNCHANGED <<keyVars, pureVars, memVars>>

Next ==
    \/ \E p \in Procs : \E req \in RequestsOf(p) : Call(p, req)
    \/ \E p \in Procs, response \in UpstreamResponses : FetchResolve(p, response)
    \/ \E p \in Procs, err \in UpstreamErrors : FetchReject(p, err)
    \/ CleanExpired
    \/ Clear
    \/ Tick

Spec == Init /\ [][Next]_vars

\* ------------------------------------------- generateCacheKey on its own
InitKey ==
    /\ InitCache
    /\ InitNoMem
    /\ tripleA \in KeyTriples /\ tripleB \in KeyTriples
    /\ keyA = Undefined /\ keyB = Undefined
    /\ InitNoCall

ComputeKeys ==
    /\ keyA = Undefined
    /\ keyA' = generateCacheKey(tripleA)
    /\ keyB' = generateCacheKey(tripleB)
    /\ UNCHANGED <<tripleA, tripleB, cacheVars, pureVars, memVars>>

NextKey == ComputeKeys

SpecKey == InitKey /\ [][NextKey]_vars

\* ====================================================== checked properties
\* Rows stored under key k that have not expired at time t
LiveRows(rows, k, t) == { r \in rows : r.cache_key = k /\ t < r.expires_at }

IsHit(res) == res.kind = "response" /\ res.hit
IsMiss(res) == res.kind = "response" /\ ~res.hit

SameData(res, r) ==
    /\ res.status = r.status
    /\ res.body = r.body
    /\ res.contentType = r.content_type

\* C1 - cache idempotence: a getOrFetchRaw call made while the entry stored
\* for its (source, request, url) has not reached its expiry returns hit=true
\* and does not invoke the fetch function.
C1_CacheIdempotence ==
    [][\A p \in Procs : \A req \in RequestsOf(p) :
         (Call(p, req) /\ LiveRows(store, generateCacheKey(req), now) # {})
            => /\ pc'[p] = "done"
               /\ IsHit(result'[p])
               /\ fetchCount' = fetchCount
               /\ inflight' = inflight]_vars

\* Two calls were made, the fetch function ran once, the second call hit.
C1_Witness ==
    /\ calls = 2
    /\ fetchCount = 1
    /\ \E p \in Procs : pc[p] = "done" /\ IsHit(result[p])

\* C2 - TTL expiry: a call for a key with no entry, or with an entry whose
\* expires_at <= now (now = expires_at included), is a miss that invokes the
\* fetch function; when the fetch resolves the call returns hit=false and the
\* entry stored has created_at = now and expires_at = now + ttl; a hit happens
\* only while now < expires_at.
C2_TtlExpiry ==
    [][\A p \in Procs :
         /\ \A req \in RequestsOf(p) :
              Call(p, req) =>
                 IF LiveRows(store, generateCacheKey(req), now) = {}
                 THEN /\ pc'[p] = "fetching"
                      /\ ~IsHit(result'[p])
                      /\ fetchCount' = fetchCount + 1
                      /\ inflight'[p].pending
                 ELSE IsHit(result'[p])
         /\ \A response \in UpstreamResponses :
              FetchResolve(p, response) =>
                 /\ IsMiss(result'[p])
                 /\ \E r \in store' :
                      /\ r.cache_key = generateCacheKey(params[p])
                      /\ r.created_at = now
                      /\ r.expires_at = now + params[p].ttlSeconds * MsPerSecond
                      /\ LiveRows(store', r.cache_key, now) = {r}]_vars

\* A single caller: its first call stored an entry, and its second call,
\* made at the very instant the entry expires, invoked the fetch function.
C2_Witness ==
    /\ pc["B"] = "idle"
    /\ pc["A"] = "fetching"
    /\ calls = 2
    /\ fetchCount = 2
    /\ \E r \in store :
         r.cache_key = generateCacheKey(params["A"]) /\ r.expires_at = now

\* C3 - a hit returns the status, body and content type of the entry stored
\* under the call's own key, with that key as cacheKey; the entry holds what
\* the fetch of the miss that stored it returned, under that miss's cacheKey.
C3_HitReturnsStored ==
    [][\A p \in Procs :
         /\ \A req \in RequestsOf(p) :
              (Call(p, req) /\ IsHit(result'[p])) =>
                 /\ result'[p].cacheKey = generateCacheKey(req)
                 /\ \E r \in store :
                      /\ r.cache_key = result'[p].cacheKey
                      /\ SameData(result'[p], r)
         /\ \A response \in UpstreamResponses :
              FetchResolve(p, response) =>
                 /\ result'[p].cacheKey = generateCacheKey(params[p])
                 /\ \A r \in store' :
                      r.cache_key = result'[p].cacheKey =>
                         /\ r.status = response.status
                         /\ r.body = response.body
                         /\ r.content_type = response.contentType
                         /\ SameData(result'[p], r)]_vars

\* A hit whose data is that of its own key while the store also holds
\* different data under another key.
C3_Witness ==
    \E p \in Procs :
       /\ IsHit(result[p])
       /\ \E r \in store : r.cache_key = result[p].cacheKey /\ SameData(result[p], r)
       /\ \E o \in store : o.cache_key # result[p].cacheKey /\ o.body # result[p].body

IsHttpError(status) == status >= 400

\* C5 - no upstream failure is served from the cache: no call returns an
\* HTTP error response with hit=true (as claimed).
C5_NoFailureServedAsHit ==
    \A p \in Procs : IsHit(result[p]) => ~IsHttpError(result[p].status)

\* C6 - at most one fetch per cache key is in flight (as claimed).
C6_SingleFlight ==
    \A p, q \in Procs :
       (p # q /\ pc[p] = "fetching" /\ pc[q] = "fetching")
          => generateCacheKey(params[p]) # generateCacheKey(params[q])

\* C7 - generateCacheKey gives equal keys exactly for equal
\* (source, request, url) triples (as claimed).
C7_KeyInjective ==
    keyA # Undefined => ((tripleA = tripleB) <=> (keyA = keyB))

SameTriple(a, b) ==
    a.source = b.source /\ a.request = b.request /\ a.url = b.url

\* C8 - headers are not part of the cache identity: requests with the same
\* (source, request, url) have the same key whatever their headers, a call
\* whose key has a live entry stored by a request with other headers is a hit
\* that does not invoke the fetch function, and a miss passes the request's
\* url and headers to the fetch function as they are.
C8_HeadersNotInKey ==
    /\ [](\A a, b \in FetchRequests :
            SameTriple(a, b) => generateCacheKey(a) = generateCacheKey(b))
    /\ [][\A p \in Procs : \A req \in RequestsOf(p) :
            Call(p, req) =>
               /\ (\E r \in store :
                     /\ SameTriple(r, req)
                     /\ now < r.expires_at)
                  => (IsHit(result'[p]) /\ fetchCount' = fetchCount)
               /\ pc'[p] = "fetching"
                  => inflight'[p] = [pending |-> TRUE, url |-> req.url,
                                     headers |-> req.headers]]_vars

\* Caller B, who sends an Authorization header, was served the entry that a
\* request without headers had stored; the fetch function ran once.
C8_Witness ==
    /\ fetchCount = 1
    /\ IsHit(result["B"])
    /\ \E r \in store : r.cache_key = result["B"].cacheKey /\ r.headers = Null

\* C9 - the store never holds two entries with one key; the write of a
\* completing miss leaves exactly one entry for its key, holding that call's
\* response and expiry, and leaves the entries of other keys alone.
C9_OneEntryPerKey ==
    /\ [](\A r1, r2 \in store : r1.cache_key = r2.cache_key => r1 = r2)
    /\ [][\A p \in Procs : \A response \in UpstreamResponses :
            FetchResolve(p, response) =>
               LET k == generateCacheKey(params[p])
                   mine == { r \in store' : r.cache_key = k }
               IN  /\ Cardinality(mine) = 1
                   /\ \A r \in mine :
                        /\ r.status = response.status
                        /\ r.body = response.body
                        /\ r.content_type = response.contentType
                        /\ r.expires_at = now + params[p].ttlSeconds * MsPerSecond
                   /\ { r \in store' : r.cache_key # k }
                        = { r \in store : r.cache_key # k }]_vars

\* Two overlapping calls for one key both missed and both invoked the fetch
\* function; B has written its entry and A's write is still to come.
C9_Witness ==
    /\ calls = 2
    /\ fetchCount = 2
    /\ pc["A"] = "fetching"
    /\ pc["B"] = "done"
    /\ IsMiss(result["B"])
    /\ result["B"].cacheKey = generateCacheKey(params["A"])
    /\ LiveRows(store, result["B"].cacheKey, now) # {}

AllKeys == { generateCacheKey(req) : req \in FetchRequests }

\* C10 - cleanExpired removes exactly the entries with expires_at <= now and
\* returns how many they were; every entry with expires_at > now stays as it
\* is and a lookup of any key finds what it found before.
C10_CleanExpiredExact ==
    [][CleanExpired =>
         /\ store' = { r \in store : r.expires_at > now }
         /\ removed' = Cardinality({ r \in store : r.expires_at <= now })
         /\ \A k \in AllKeys :
              /\ LiveRows(store', k, now) = LiveRows(store, k, now)
              /\ getCacheEntry(store', k, now) = getCacheEntry(store, k, now)]_vars

\* cleanExpired has removed one entry; the entry that had not expired is
\* still stored and a call has been served from it.
C10_Witness ==
    /\ removed = 1
    /\ Cardinality(store) = 1
    /\ calls = 3
    /\ fetchCount = 2
    /\ \E r \in store :
         /\ now < r.expires_at
         /\ \E p \in Procs : IsHit(result[p]) /\ result[p].cacheKey = r.cache_key

\* C11 - calls for different keys do not block each other: while a caller's
\* fetch is pending, another caller can start a call for any other key and,
\* once its own fetch is pending, complete it; such a step leaves the pending
\* fetch as it is, and the write of a completing miss leaves the entries of
\* every other key as they are.
C11_DifferentKeysDoNotBlock ==
    /\ [](\A p, q \in Procs :
            (p # q /\ pc[p] = "fetching") =>
               /\ (pc[q] # "fetching" /\ calls < MaxCalls) =>
                     \A req \in RequestsOf(q) :
                        generateCacheKey(req) # generateCacheKey(params[p])
                           => ENABLED Call(q, req)
               /\ pc[q] = "fetching" =>
                     \A response \in UpstreamResponses :
                        ENABLED FetchResolve(q, response))
    /\ [][\A p, q \in Procs :
            (p # q /\ pc[p] = "fetching") =>
               /\ \A req \in RequestsOf(q) :
                    Call(q, req) =>
                       /\ pc'[p] = "fetching"
                       /\ inflight'[p] = inflight[p]
                       /\ store' = store
               /\ \A response \in UpstreamResponses :
                    FetchResolve(q, response) =>
                       /\ pc'[p] = "fetching"
                       /\ inflight'[p] = inflight[p]
                       /\ \A k \in AllKeys :
                            k # generateCacheKey(params[q]) =>
                               { r \in store' : r.cache_key = k }
                                  = { r \in store : r.cache_key = k }]_vars

\* Fetches for two different keys are pending at once.
C11_Witness ==
    /\ pc["A"] = "fetching"
    /\ pc["B"] = "fetching"
    /\ generateCacheKey(params["A"]) # generateCacheKey(params["B"])

\* C12 - clear() leaves the store empty, so no key has an entry to serve,
\* expired or not; a call that finds the store empty is a miss that invokes
\* the fetch function.
C12_ClearRemovesAll ==
    [][/\ Clear =>
            /\ store' = {}
            /\ \A k \in AllKeys : LiveRows(store', k, now') = {}
       /\ \A p \in Procs : \A req \in RequestsOf(p) :
            (Call(p, req) /\ store = {}) =>
               /\ pc'[p] = "fetching"
               /\ fetchCount' = fetchCount + 1
               /\ inflight'[p].pending]_vars

\* A single caller at time 0: its first call stored an entry, its second
\* was served from it, and its third, after clear(), invoked the fetch
\* function again although the entry had not expired.
C12_Witness ==
    /\ pc["B"] = "idle"
    /\ pc["A"] = "fetching"
    /\ calls = 3
    /\ fetchCount = 2
    /\ now = 0
    /\ store = {}

\* =================================================== packages/core: dossier
\* A JavaScript string is a TLA+ string; a value of an optional property
\* (publicUrl?: string) is Undefined or Defined(the string).
Defined(s) == [value |-> s]

\* ------------------------------------------------------------- evidence ids
MaxEvidence == 2     \* addEvidenceId is called on MaxEvidence records in turn

ProfileApiUrl == "https://api.company-information.service.gov.uk/company/00000001"
OfficersApiUrl == ProfileApiUrl \o "/officers"
PSCsApiUrl == ProfileApiUrl \o "/persons-with-significant-control"
ProfilePublicUrl ==
    "https://find-and-update.company-information.service.gov.uk/company/00000001"

\* interface Evidence
Evidences ==
    [apiUrl : {ProfileApiUrl, OfficersApiUrl, PSCsApiUrl},
     publicUrl : {Undefined, Defined(ProfilePublicUrl)},
     fetchedAt : {"2024-01-01T00:00:00.000Z", "2024-06-01T00:00:00.000Z"},
     fromCache : BOOLEAN]

\* createHash('sha256').update(url).digest('hex'): the SHA-256 digests of
\* the urls of this model, as 64 hexadecimal digits.
Sha256HexDigest(data) ==
    CASE data = ProfileApiUrl ->
           "9c8fecea74dfde22b430e9f41df0fe5d8bd77d1d1d543bee092c61ca3f92e4cc"
      [] data = OfficersApiUrl ->
           "f8b2e9cde0eddb0925a6463a1e92b4f53d35d6b12d8946ca1891b4c7076bc572"
      [] data = PSCsApiUrl ->
           "c77b0c931568d68b9d2b904d26cb52b9895690b25f398d8ec8071f9de89e770a"
      [] data = ProfilePublicUrl ->
           "308651283693f33ef1b867a02eadf7edd262fb1373be7d1a8d8221bfccd39a39"

\* String.prototype.substring(start, end) for 0 <= start <= end
Substring(s, start, end) ==
    SubSeq(s, start + 1, IF end > Len(s) THEN Len(s) ELSE end)

EvidenceIdLength == 12

\* generateEvidenceId
generateEvidenceId(url) == Substring(Sha256HexDigest(url), 0, EvidenceIdLength)

\* Variant: the id is taken from the public url when there is one.
addEvidenceIdPreferPublic(evidence) ==
    [returned |->
        [id |-> generateEvidenceId(IF evidence.publicUrl = Undefined
                                   THEN evidence.apiUrl
                                   ELSE evidence.publicUrl.value),
         apiUrl |-> evidence.apiUrl,
         publicUrl |-> evidence.publicUrl,
         fetchedAt |-> evidence.fetchedAt,
         fromCache |-> evidence.fromCache],
     evidence |-> evidence]

\* addEvidenceId: the object it returns and the argument as the call leaves
\* it. The result is a fresh object literal; nothing is assigned to evidence.
addEvidenceId(evidence) ==
    [returned |->
        [id |-> generateEvidenceId(evidence.apiUrl),
         apiUrl |-> evidence.apiUrl,
         publicUrl |-> evidence.publicUrl,
         fetchedAt |-> evidence.fetchedAt,
         fromCache |-> evidence.fromCache],
     evidence |-> evidence]

\* addEvidenceId on its own: input is a list of Evidence records, output the
\* list of objects the calls made so far returned.
InitEvidence ==
    /\ InitCache
    /\ InitNoMem
    /\ InitNoKeys
    /\ input \in [1..MaxEvidence -> Evidences]
    /\ output = <<>>

CallAddEvidenceId ==
    /\ Len(output) < Len(input)
    /\ LET i == Len(output) + 1
           call == addEvidenceId(input[i])
       IN /\ output' = Append(output, call.returned)
          /\ input' = [input EXCEPT ![i] = call.evidence]
    /\ UNCHANGED <<cacheVars, keyVars, memVars>>

NextEvidence == CallAddEvidenceId

SpecEvidence == InitEvidence /\ [][NextEvidence]_vars

HexDigits == "0123456789abcdef"

IsLowerHex(s) ==
    \A i \in 1..Len(s) : \E j \in 1..Len(HexDigits) :
        SubSeq(s, i, i) = SubSeq(HexDigits, j, j)

\* C15 - the evidence id is a function of apiUrl alone: every id is 12
\* lowercase hexadecimal digits and equals generateEvidenceId(apiUrl), two
\* records with the same apiUrl get the same id whatever their fetchedAt,
\* fromCache and publicUrl, and a call of addEvidenceId leaves its argument
\* as it was while returning the argument's four properties with the id.
C15_EvidenceIdPure ==
    /\ [](\A i \in 1..Len(output) :
            /\ Len(output[i].id) = 12
            /\ IsLowerHex(output[i].id)
            /\ output[i].id = generateEvidenceId(input[i].apiUrl)
            /\ \A j \in 1..Len(output) :
                 input[i].apiUrl = input[j].apiUrl
                    => output[i].id = output[j].id)
    /\ [][CallAddEvidenceId =>
            /\ input' = input
            /\ LET r == output'[Len(output')]
                   e == input[Len(output')]
               IN /\ r.apiUrl = e.apiUrl
                  /\ r.publicUrl = e.publicUrl
                  /\ r.fetchedAt = e.fetchedAt
                  /\ r.fromCache = e.fromCache]_vars

C15_Witness ==
    /\ Len(output) = 2
    /\ input[1].apiUrl = input[2].apiUrl
    /\ input[1].fetchedAt # input[2].fetchedAt
    /\ input[1].fromCache # input[2].fromCache
    /\ input[1].publicUrl # input[2].publicUrl
    /\ output[1].id = output[2].id

\* ------------------------------------------------------------------ sorting
MaxOfficers == 3     \* sortOfficers gets lists of at most MaxOfficers officers
MaxPSCs == 3         \* sortPSCs gets lists of at most MaxPSCs PSCs

\* String.prototype.localeCompare without a locale argument: the collation
\* of the runtime's default locale, here the root collation. The characters
\* of this model in the order of their primary weights (white space, then
\* punctuation, then digits, then letters), capitals folded onto small
\* letters; a small letter precedes its capital at the third level.
CollationOrder == " _-,:./0123456789abcdefghijklmnopqrstuvwxyz"
SmallLetters == "abcdefghijklmnopqrstuvwxyz"
CapitalLetters == "ABCDEFGHIJKLMNOPQRSTUVWXYZ"

CharAt(s, i) == SubSeq(s, i, i)

\* Primary weight of every character: its place in CollationOrder, a
\* capital letter at the place of its small letter.
PrimaryWeights ==
    [c \in { CharAt(CollationOrder, i) : i \in 1..Len(CollationOrder) }
           \cup { CharAt(CapitalLetters, i) : i \in 1..Len(CapitalLetters) } |->
       IF \E i \in 1..Len(CapitalLetters) : CharAt(CapitalLetters, i) = c
       THEN CHOOSE k \in 1..Len(CollationOrder) :
               \E i \in 1..Len(CapitalLetters) :
                  /\ CharAt(CapitalLetters, i) = c
                  /\ CharAt(CollationOrder, k) = CharAt(SmallLetters, i)
       ELSE CHOOSE k \in 1..Len(CollationOrder) : CharAt(CollationOrder, k) = c]

\* Tertiary weight: a small letter before its capital
TertiaryWeights ==
    [c \in DOMAIN PrimaryWeights |->
       IF \E i \in 1..Len(CapitalLetters) : CharAt(CapitalLetters, i) = c
       THEN 2 ELSE 1]

\* The collation key of a string: its primary weights, the level separator,
\* its tertiary weights. SortKeyLength is the key's length, SortKeyAt its
\* i-th weight.
SortKeyLength(s) == 2 * Len(s) + 1

SortKeyAt(s, i) ==
    IF i <= Len(s) THEN PrimaryWeights[CharAt(s, i)]
    ELSE IF i = Len(s) + 1 THEN 0
    ELSE TertiaryWeights[CharAt(s, i - Len(s) - 1)]

\* Identical strings compare equal; others compare as their collation keys:
\* at the first position where the keys differ, else the shorter key first.
LocaleCompare(a, b) ==
    IF a = b
    THEN 0
    ELSE LET n == IF SortKeyLength(a) < SortKeyLength(b)
                  THEN SortKeyLength(a) ELSE SortKeyLength(b)
             FirstDifference[k \in 1..(n + 1)] ==
                 IF k > n THEN 0
                 ELSE IF SortKeyAt(a, k) # SortKeyAt(b, k) THEN k
                 ELSE FirstDifference[k + 1]
             d == FirstDifference[1]
         IN IF d # 0
            THEN IF SortKeyAt(a, d) < SortKeyAt(b, d) THEN -1 ELSE 1
            ELSE IF SortKeyLength(a) < SortKeyLength(b) THEN -1
            ELSE IF SortKeyLength(a) > SortKeyLength(b) THEN 1
            ELSE 0

\* The elements of an array
Elements(arr) == {arr[i] : i \in 1..Len(arr)}

\* Array.prototype.sort(compareFn): a stable sort. Each element goes behind
\* the elements already placed that compareFn does not put after it.
\* compareFn is a function of two elements of the array.
ArraySort(arr, compareFn) ==
    LET Insert(sorted, x) ==
            LET k == Cardinality({ i \in 1..Len(sorted) :
                                     compareFn[sorted[i], x] <= 0 })
            IN SubSeq(sorted, 1, k) \o <<x>> \o SubSeq(sorted, k + 1, Len(sorted))
        Placed[n \in 0..Len(arr)] ==
            IF n = 0 THEN <<>> ELSE Insert(Placed[n - 1], arr[n])
    IN Placed[Len(arr)]

\* Variant: undefined sorts first.
compareStringsUndefinedFirst(a, b) ==
    IF a = Undefined /\ b = Undefined THEN 0
    ELSE IF a = Undefined THEN -1
    ELSE IF b = Undefined THEN 1
    ELSE LocaleCompare(a.value, b.value)

\* compareStrings
compareStrings(a, b) ==
    IF a = Undefined /\ b = Undefined THEN 0
    ELSE IF a = Undefined THEN 1
    ELSE IF b = Undefined THEN -1
    ELSE LocaleCompare(a.value, b.value)

\* Variant: officers are compared by appointment date only.
OfficerCompareFnDateOnly(a, b) == compareStrings(a.appointedOn, b.appointedOn)

\* The compare function of sortOfficers
OfficerCompareFn(a, b) ==
    LET dateCompare == compareStrings(a.appointedOn, b.appointedOn)
        nameCompare == LocaleCompare(a.name, b.name)
    IN IF dateCompare # 0 THEN dateCompare
       ELSE IF nameCompare # 0 THEN nameCompare
       ELSE LocaleCompare(a.role, b.role)

\* sortOfficers: the list it returns and the argument as the call leaves it
\* ([...officers] copies the list, and sort works on the copy).
sortOfficers(officers) ==
    [returned |-> ArraySort(officers, [a, b \in Elements(officers) |-> OfficerCompareFn(a, b)]),
     officers |-> officers]

\* The compare function of sortPSCs; natureOfControl[0] || ''
PSCCompareFn(a, b) ==
    LET dateCompare == compareStrings(a.notifiedOn, b.notifiedOn)
        nameCompare == LocaleCompare(a.name, b.name)
        controlA == IF Len(a.natureOfControl) = 0 THEN "" ELSE a.natureOfControl[1]
        controlB == IF Len(b.natureOfControl) = 0 THEN "" ELSE b.natureOfControl[1]
    IN IF dateCompare # 0 THEN dateCompare
       ELSE IF nameCompare # 0 THEN nameCompare
       ELSE LocaleCompare(controlA, controlB)

\* Variant: the list is sorted in place.
sortPSCsInPlace(pscs) ==
    [returned |-> ArraySort(pscs, [a, b \in Elements(pscs) |-> PSCCompareFn(a, b)]),
     pscs |-> ArraySort(pscs, [a, b \in Elements(pscs) |-> PSCCompareFn(a, b)])]

\* sortPSCs: the list it returns and the argument as the call leaves it
sortPSCs(pscs) ==
    [returned |-> ArraySort(pscs, [a, b \in Elements(pscs) |-> PSCCompareFn(a, b)]),
     pscs |-> pscs]

\* interface Officer, as sortOfficers may be handed it: officers that differ
\* in name, officers of one name that differ in role, directors of one name
\* that differ in nationality only, and British directors without an
\* appointment date.
Officers ==
    { o \in [name : {"adams", "Baker"},
             role : {"Director", "Secretary"},
             appointedOn : {Undefined, Defined("2019-05-01"), Defined("2020-01-15")},
             resignedOn : {Undefined},
             nationality : {"British", "Irish"},
             birthMonth : {Undefined}, birthYear : {Undefined}] :
        /\ o.role = "Secretary" => o.nationality = "British"
        /\ o.name = "Baker" => (o.role = "Director" /\ o.nationality = "British")
        /\ o.appointedOn = Undefined
              => (o.role = "Director" /\ o.nationality = "British") }

\* Lists of at most n elements of set S
ListsUpTo(S, n) == UNION { [1..k -> S] : k \in 0..n }

\* sortOfficers on its own
InitSortOfficers ==
    /\ InitCache
    /\ InitNoMem
    /\ InitNoKeys
    /\ input \in ListsUpTo(Officers, MaxOfficers)
    /\ output = Undefined

CallSortOfficers ==
    /\ output = Undefined
    /\ LET call == sortOfficers(input)
       IN /\ output' = [returned |-> call.returned]
          /\ input' = call.officers
    /\ UNCHANGED <<cacheVars, keyVars, memVars>>

NextSortOfficers == CallSortOfficers

SpecSortOfficers == InitSortOfficers /\ [][NextSortOfficers]_vars

\* Officers a and b are equal on the three sort keys.
SameOfficerKeys(a, b) ==
    /\ a.appointedOn = b.appointedOn
    /\ a.name = b.name
    /\ a.role = b.role

\* Officer a must come before officer b: earlier date, a date against none,
\* then the name and then the role that localeCompare puts first.
OfficerBefore(a, b) ==
    \/ /\ a.appointedOn # Undefined
       /\ b.appointedOn = Undefined
    \/ /\ a.appointedOn # Undefined
       /\ b.appointedOn # Undefined
       /\ LocaleCompare(a.appointedOn.value, b.appointedOn.value) < 0
    \/ /\ a.appointedOn = b.appointedOn
       /\ LocaleCompare(a.name, b.name) < 0
    \/ /\ a.appointedOn = b.appointedOn
       /\ a.name = b.name
       /\ LocaleCompare(a.role, b.role) < 0

\* C16 - sortOfficers returns its input rearranged and leaves the input list
\* as it was; in the result no officer stands behind one it must come before
\* (appointment date ascending with undefined last, then name, then role,
\* each ascending by localeCompare), and officers equal on all three keys
\* stand in the order they had in the input.
C16_SortOfficers ==
    [][CallSortOfficers =>
            /\ input' = input
            /\ LET r == output'.returned
               IN /\ Len(r) = Len(input)
                  /\ \A k \in 1..Len(input) :
                        LET SameKeys(o) == SameOfficerKeys(o, input[k])
                        IN SelectSeq(r, SameKeys) = SelectSeq(input, SameKeys)
                  /\ \A i, j \in 1..Len(r) :
                        i < j => ~OfficerBefore(r[j], r[i])]_vars

C16_Witness ==
    /\ output # Undefined
    /\ Len(input) = 3
    /\ input[1].appointedOn = Undefined
    /\ SameOfficerKeys(input[2], input[3])
    /\ input[2].nationality # input[3].nationality
    /\ output.returned = <<input[2], input[3], input[1]>>

\* The rearrangements of positions 1..n
Rearrangements(n) ==
    { f \in [1..n -> 1..n] : \A i, j \in 1..n : i # j => f[i] # f[j] }

\* List s with its elements in the order given by f
Permuted(s, f) == [i \in 1..Len(s) |-> s[f[i]]]

\* The three sort keys of every officer of list s
OfficerKeys(s) ==
    [i \in 1..Len(s) |->
       [appointedOn |-> s[i].appointedOn, name |-> s[i].name, role |-> s[i].role]]

\* C17 as stated - sortOfficers returns the same sequence for every
\* rearrangement of its input list, and of two officers with the same
\* appointment date the one with the smaller name comes first.
C17_InputOrderIndependent ==
    output # Undefined =>
       /\ \A f \in Rearrangements(Len(input)) :
            sortOfficers(Permuted(input, f)).returned = output.returned
       /\ \A i, j \in 1..Len(output.returned) :
            (/\ i < j
             /\ output.returned[i].appointedOn = output.returned[j].appointedOn)
               => LocaleCompare(output.returned[i].name, output.returned[j].name) <= 0

\* C17 amended - for every rearrangement of its input list sortOfficers
\* returns officers with the same appointment date, name and role at every
\* position (officers equal on all three keep their input order, so the
\* sequences themselves may differ), and of two officers with the same
\* appointment date the one whose name localeCompare puts first comes first.
C17_KeysInputOrderIndependent ==
    output # Undefined =>
       /\ \A f \in Rearrangements(Len(input)) :
            OfficerKeys(sortOfficers(Permuted(input, f)).returned)
               = OfficerKeys(output.returned)
       /\ \A i, j \in 1..Len(output.returned) :
            (/\ i < j
             /\ output.returned[i].appointedOn = output.returned[j].appointedOn)
               => LocaleCompare(output.returned[i].name, output.returned[j].name) <= 0

C17_Witness ==
    /\ output # Undefined
    /\ Len(input) = 3
    /\ input[1].name = "Baker"
    /\ input[2].name = "adams"
    /\ input[3].name = "adams"
    /\ input[1].appointedOn = input[2].appointedOn
    /\ SameOfficerKeys(input[2], input[3])
    /\ input[2] # input[3]
    /\ output.returned = <<input[2], input[3], input[1]>>

\* interface PSC, as sortPSCs may be handed it: PSCs that differ in name,
\* PSCs of one name that differ in their natures of control, and PSCs
\* without a notification date.
PSCs ==
    { c \in [name : {"adams", "Baker"},
             natureOfControl :
                {<<>>,
                 <<"ownership-of-shares-25-to-50-percent">>,
                 <<"voting-rights-25-to-50-percent",
                   "ownership-of-shares-25-to-50-percent">>},
             notifiedOn : {Undefined, Defined("2019-05-01"), Defined("2020-01-15")},
             ceasedOn : {Undefined},
             nationality : {"British"}] :
        /\ c.name = "Baker" => Len(c.natureOfControl) = 1
        /\ c.notifiedOn = Undefined => Len(c.natureOfControl) = 1 }

\* sortPSCs on its own
InitSortPSCs ==
    /\ InitCache
    /\ InitNoMem
    /\ InitNoKeys
    /\ input \in ListsUpTo(PSCs, MaxPSCs)
    /\ output = Undefined

CallSortPSCs ==
    /\ output = Undefined
    /\ LET call == sortPSCs(input)
       IN /\ output' = [returned |-> call.returned]
          /\ input' = call.pscs
    /\ UNCHANGED <<cacheVars, keyVars, memVars>>

NextSortPSCs == CallSortPSCs

SpecSortPSCs == InitSortPSCs /\ [][NextSortPSCs]_vars

\* The first nature-of-control entry of a PSC, the empty string if none
FirstControl(c) ==
    IF Len(c.natureOfControl) = 0 THEN "" ELSE c.natureOfControl[1]

\* PSC a must come before PSC b: earlier date, a date against none, then
\* the name and then the first nature of control localeCompare puts first.
PSCBefore(a, b) ==
    \/ /\ a.notifiedOn # Undefined
       /\ b.notifiedOn = Undefined
    \/ /\ a.notifiedOn # Undefined
       /\ b.notifiedOn # Undefined
       /\ LocaleCompare(a.notifiedOn.value, b.notifiedOn.value) < 0
    \/ /\ a.notifiedOn = b.notifiedOn
       /\ LocaleCompare(a.name, b.name) < 0
    \/ /\ a.notifiedOn = b.notifiedOn
       /\ a.name = b.name
       /\ LocaleCompare(FirstControl(a), FirstControl(b)) < 0

\* C18 - sortPSCs returns its input rearranged (every PSC as often as the
\* input has it) and leaves the input list as it was; in the result no PSC
\* stands behind one it must come before: notified-on date ascending with
\* undefined last, then name, then first nature-of-control entry, a PSC
\* without entries counting as the empty string.
C18_SortPSCs ==
    [][CallSortPSCs =>
            /\ input' = input
            /\ LET r == output'.returned
               IN /\ Len(r) = Len(input)
                  /\ \A k \in 1..Len(input) :
                        LET Same(c) == c = input[k]
                        IN Len(SelectSeq(r, Same)) = Len(SelectSeq(input, Same))
                  /\ \A i, j \in 1..Len(r) :
                        i < j => ~PSCBefore(r[j], r[i])]_vars

C18_Witness ==
    /\ output # Undefined
    /\ Len(input) = 3
    /\ input[1].notifiedOn = Undefined
    /\ input[2].notifiedOn = input[3].notifiedOn
    /\ input[2].name = input[3].name
    /\ Len(input[2].natureOfControl) = 2
    /\ Len(input[3].natureOfControl) = 0
    /\ output.returned = <<input[3], input[2], input[1]>>

\* -------------------------------------------------------------- normalizers
\* x || fallback for an optional string x: undefined and '' give the fallback
Truthy(x) == x # Undefined /\ x.value # ""
StringOr(x, fallback) == IF Truthy(x) THEN x.value ELSE fallback

\* addr?.property
OptionalChain(obj, property) ==
    IF obj = Undefined THEN Undefined ELSE obj[property]

\* normalizeAddress
normalizeAddress(addr) ==
    [line1 |-> StringOr(OptionalChain(addr, "address_line_1"),
                        StringOr(OptionalChain(addr, "premises"), "")),
     line2 |-> OptionalChain(addr, "address_line_2"),
     town |-> StringOr(OptionalChain(addr, "locality"), ""),
     postcode |-> StringOr(OptionalChain(addr, "postal_code"), ""),
     country |-> StringOr(OptionalChain(addr, "country"), "")]

\* sortSicCodes
sortSicCodes(codes) == 
    ArraySort(codes, [a, b \in Elements(codes) |-> LocaleCompare(a, b)])

\* sortNaturesOfControl
sortNaturesOfControl(natures) == 
    ArraySort(natures, [a, b \in Elements(natures) |-> LocaleCompare(a, b)])

\* normalizeCompany; an array is truthy even when empty
normalizeCompany(profile) ==
    [companyNumber |-> profile.company_number,
     name |-> profile.company_name,
     status |-> profile.company_status,
     type |-> profile.type,
     incorporationDate |-> StringOr(profile.date_of_creation, ""),
     registeredOffice |-> normalizeAddress(profile.registered_office_address),
     sicCodes |-> sortSicCodes(IF profile.sic_codes = Undefined
                               THEN <<>> ELSE profile.sic_codes.value)]

\* String.prototype.toUpperCase on one character
ToUpperCase(c) ==
    IF \E i \in 1..Len(SmallLetters) : CharAt(SmallLetters, i) = c
    THEN CharAt(CapitalLetters,
                CHOOSE i \in 1..Len(SmallLetters) : CharAt(SmallLetters, i) = c)
    ELSE c

\* normalizeOfficerRole: split at '-', capitalise each word, join with ' '.
\* Character by character: a '-' becomes ' ', and the first character and
\* every character behind a '-' is put in upper case.
normalizeOfficerRole(role) ==
    LET Word[i \in 0..Len(role)] ==
            IF i = 0 THEN ""
            ELSE Word[i - 1] \o
                 (IF CharAt(role, i) = "-" THEN " "
                  ELSE IF i = 1 \/ CharAt(role, i - 1) = "-"
                       THEN ToUpperCase(CharAt(role, i))
                       ELSE CharAt(role, i))
    IN Word[Len(role)]

\* Variant: the day of birth is copied as well.
normalizeOfficerWithBirthDay(item) ==
    [name |-> item.name,
     role |-> normalizeOfficerRole(item.officer_role),
     appointedOn |-> Defined(StringOr(item.appointed_on, "")),
     resignedOn |-> item.resigned_on,
     nationality |-> StringOr(item.nationality, ""),
     birthDay |-> IF item.date_of_birth = Undefined THEN Undefined
                  ELSE item.date_of_birth.day,
     birthMonth |-> IF item.date_of_birth = Undefined THEN Undefined
                    ELSE Defined(item.date_of_birth.month),
     birthYear |-> IF item.date_of_birth = Undefined THEN Undefined
                   ELSE Defined(item.date_of_birth.year)]

\* normalizeOfficer. appointedOn is a string here; it is kept as
\* Defined(string) because sortOfficers also takes undefined dates.
normalizeOfficer(item) ==
    [name |-> item.name,
     role |-> normalizeOfficerRole(item.officer_role),
     appointedOn |-> Defined(StringOr(item.appointed_on, "")),
     resignedOn |-> item.resigned_on,
     nationality |-> StringOr(item.nationality, ""),
     birthMonth |-> IF item.date_of_birth = Undefined THEN Undefined
                    ELSE Defined(item.date_of_birth.month),
     birthYear |-> IF item.date_of_birth = Undefined THEN Undefined
                   ELSE Defined(item.date_of_birth.year)]

\* normalizeOfficers
normalizeOfficers(response) ==
    [i \in 1..Len(response.items) |-> normalizeOfficer(response.items[i])]

\* normalizePSC
normalizePSC(item) ==
    [name |-> StringOr(item.name, ""),
     natureOfControl |-> sortNaturesOfControl(IF item.natures_of_control = Undefined
                                              THEN <<>>
                                              ELSE item.natures_of_control.value),
     notifiedOn |-> Defined(StringOr(item.notified_on, "")),
     ceasedOn |-> item.ceased_on,
     nationality |-> StringOr(item.nationality, "")]

\* normalizePSCs
normalizePSCs(response) ==
    [i \in 1..Len(response.items) |-> normalizePSC(response.items[i])]

\* normalizeModernSlavery
normalizeModernSlavery(registryResult) ==
    IF ~registryResult.found
    THEN Undefined
    ELSE [url |-> StringOr(registryResult.statementSummaryUrl, ""),
          signedBy |-> "",
          dateSigned |-> "",
          compliant |-> TRUE]

\* ------------------------------------------------------------- buildDossier
MaxItems == 2        \* an upstream response lists at most MaxItems items

\* interface CompanyProfileResponse (the properties the builder and the risk
\* rules read): an active company with every optional property present and
\* nothing overdue
ActiveProfile ==
    [company_number |-> "00000001",
     company_name |-> "ACME LTD",
     company_status |-> "active",
     type |-> "ltd",
     date_of_creation |-> Defined("2010-01-01"),
     registered_office_address |->
        [address_line_1 |-> Undefined,
         premises |-> Defined("1"),
         address_line_2 |-> Defined("High Street"),
         locality |-> Defined("London"),
         postal_code |-> Defined("N1 1AA"),
         country |-> Undefined],
     sic_codes |-> Defined(<<"62090", "47110">>),
     accounts |-> [overdue |-> Defined(FALSE),
                   next_accounts |-> [overdue |-> Defined(FALSE),
                                      due_on |-> Defined("2025-09-30")]],
     confirmation_statement |-> [overdue |-> Defined(FALSE),
                                 next_due |-> Defined("2025-01-14")],
     has_insolvency_history |-> Defined(FALSE),
     has_been_liquidated |-> Defined(FALSE)]

\* A dissolved company with every optional property absent
DissolvedProfile ==
    [company_number |-> "00000002",
     company_name |-> "OLDCO LTD",
     company_status |-> "dissolved",
     type |-> "ltd",
     date_of_creation |-> Undefined,
     registered_office_address |-> Undefined,
     sic_codes |-> Undefined,
     accounts |-> Undefined,
     confirmation_statement |-> Undefined,
     has_insolvency_history |-> Undefined,
     has_been_liquidated |-> Undefined]

BuildProfiles == {ActiveProfile, DissolvedProfile}

\* interface OfficerItem (the properties normalizeOfficer reads)
OfficerItems ==
    {[name |-> "SMITH, John",
      officer_role |-> "director",
      appointed_on |-> Defined("2020-01-15"),
      resigned_on |-> Undefined,
      nationality |-> Defined("British"),
      date_of_birth |-> [day |-> Defined(15), month |-> 6, year |-> 1970]],
     [name |-> "adams",
      officer_role |-> "corporate-secretary",
      appointed_on |-> Undefined,
      resigned_on |-> Defined("2021-03-01"),
      nationality |-> Undefined,
      date_of_birth |-> Undefined]}

\* interface PSCItem (the properties normalizePSC reads)
PSCItems ==
    {[name |-> Defined("SMITH, John"),
      natures_of_control |-> Defined(<<"voting-rights-25-to-50-percent",
                                       "ownership-of-shares-25-to-50-percent">>),
      notified_on |-> Defined("2019-05-01"),
      ceased_on |-> Undefined,
      nationality |-> Defined("British")],
     [name |-> Undefined,
      natures_of_control |-> Undefined,
      notified_on |-> Undefined,
      ceased_on |-> Defined("2022-01-01"),
      nationality |-> Undefined]}

PSCStatementsLink == "/company/00000001/persons-with-significant-control-statements"

\* interface ModernSlaveryRegistryResult
RegistryResults ==
    {[found |-> FALSE, statementSummaryUrl |-> Undefined],
     [found |-> TRUE,
      statementSummaryUrl |-> Defined("https://modern-slavery-statement-registry.service.gov.uk/statement-summary/1")]}

\* DossierInput.evidence: the three records cite the three API urls, or one
\* url three times.
EvidenceFor(apiUrl, fetchedAt, fromCache) ==
    [apiUrl |-> apiUrl, publicUrl |-> Defined(ProfilePublicUrl),
     fetchedAt |-> fetchedAt, fromCache |-> fromCache]

BuildEvidence ==
    {[profile |-> EvidenceFor(ProfileApiUrl, "2024-01-01T00:00:00.000Z", FALSE),
      officers |-> EvidenceFor(OfficersApiUrl, "2024-01-01T00:00:00.000Z", FALSE),
      pscs |-> EvidenceFor(PSCsApiUrl, "2024-01-01T00:00:00.000Z", FALSE)],
     [profile |-> EvidenceFor(ProfileApiUrl, "2024-06-01T00:00:00.000Z", FALSE),
      officers |-> EvidenceFor(ProfileApiUrl, "2024-01-01T00:00:00.000Z", FALSE),
      pscs |-> EvidenceFor(ProfileApiUrl, "2024-01-01T00:00:00.000Z", TRUE)]}

\* interface DossierInput
DossierInputs ==
    [profile : BuildProfiles,
     officers : [items : ListsUpTo(OfficerItems, MaxItems)],
     pscs : [items : ListsUpTo(PSCItems, MaxItems),
             links : {[persons_with_significant_control_statements |-> Undefined]}],
     modernSlavery : RegistryResults,
     evidence : BuildEvidence]

\* The optional generatedAt argument, and what new Date().toISOString() may
\* return at the time of a call
GeneratedAtValues == {Undefined, Defined(""), Defined("2024-03-01T12:00:00.000Z")}
ClockValues == {"2024-07-01T09:00:00.000Z", "2024-07-01T09:00:00.001Z"}

\* Variant: the evidence list is left in the order profile, officers, PSCs.
buildDossierEvidenceUnsorted(dossierInput, generatedAt, clock) ==
    [dossier |->
        [company |-> normalizeCompany(dossierInput.profile),
         officers |-> sortOfficers(normalizeOfficers(dossierInput.officers)).returned,
         pscs |-> sortPSCs(normalizePSCs(dossierInput.pscs)).returned,
         riskFlags |-> <<>>,
         modernSlavery |-> normalizeModernSlavery(dossierInput.modernSlavery),
         generatedAt |-> StringOr(generatedAt, clock)],
     evidence |->
        <<addEvidenceId(dossierInput.evidence.profile).returned,
          addEvidenceId(dossierInput.evidence.officers).returned,
          addEvidenceId(dossierInput.evidence.pscs).returned>>]

\* The compare function of the evidence list
EvidenceCompareFn(a, b) == LocaleCompare(a.id, b.id)

\* buildDossier; clock is what new Date().toISOString() returns if called
buildDossier(dossierInput, generatedAt, clock) ==
    [dossier |->
        [company |-> normalizeCompany(dossierInput.profile),
         officers |-> sortOfficers(normalizeOfficers(dossierInput.officers)).returned,
         pscs |-> sortPSCs(normalizePSCs(dossierInput.pscs)).returned,
         riskFlags |-> <<>>,
         modernSlavery |-> normalizeModernSlavery(dossierInput.modernSlavery),
         generatedAt |-> StringOr(generatedAt, clock)],
     evidence |->
        LET evidenceList ==
                <<addEvidenceId(dossierInput.evidence.profile).returned,
                  addEvidenceId(dossierInput.evidence.officers).returned,
                  addEvidenceId(dossierInput.evidence.pscs).returned>>
        IN ArraySort(evidenceList,
                     [a, b \in Elements(evidenceList) |-> EvidenceCompareFn(a, b)])]

\* buildDossier on its own, called twice: input is a DossierInput and the
\* generatedAt argument of each call, output the results of the calls made.
InitBuild ==
    /\ InitCache
    /\ InitNoMem
    /\ InitNoKeys
    /\ input \in [dossierInput : DossierInputs,
                  generatedAt : [1..2 -> GeneratedAtValues]]
    /\ output = <<>>

CallBuildDossier ==
    /\ Len(output) < 2
    /\ \E clock \in ClockValues :
          output' = Append(output,
                           buildDossier(input.dossierInput,
                                        input.generatedAt[Len(output) + 1],
                                        clock))
    /\ UNCHANGED <<cacheVars, keyVars, memVars, input>>

NextBuild == CallBuildDossier

SpecBuild == InitBuild /\ [][NextBuild]_vars

\* C14 - every buildDossier result has an evidence list of exactly three
\* records: the profile, officers and PSCs evidence of the input, each with
\* the id of its apiUrl attached, in ascending order of id.
C14_ThreeEvidenceSortedById ==
    \A n \in 1..Len(output) :
       LET ev == output[n].evidence
           given == <<input.dossierInput.evidence.profile,
                      input.dossierInput.evidence.officers,
                      input.dossierInput.evidence.pscs>>
       IN /\ Len(ev) = 3
          /\ \E f \in Rearrangements(3) :
               \A i \in 1..3 :
                  /\ ev[f[i]].id = generateEvidenceId(given[i].apiUrl)
                  /\ ev[f[i]].apiUrl = given[i].apiUrl
                  /\ ev[f[i]].publicUrl = given[i].publicUrl
                  /\ ev[f[i]].fetchedAt = given[i].fetchedAt
                  /\ ev[f[i]].fromCache = given[i].fromCache
          /\ \A i, j \in 1..Len(ev) :
               i < j => LocaleCompare(ev[i].id, ev[j].id) <= 0

C14_Witness ==
    /\ Len(output) = 1
    /\ output[1].evidence[1].apiUrl = input.dossierInput.evidence.profile.apiUrl
    /\ output[1].evidence[2].apiUrl = input.dossierInput.evidence.pscs.apiUrl
    /\ output[1].evidence[3].apiUrl = input.dossierInput.evidence.officers.apiUrl
    /\ output[1].evidence[1].id # output[1].evidence[2].id
    /\ output[1].evidence[2].id # output[1].evidence[3].id

\* --------------------------------------------------------- serializeDossier
\* JSON.stringify of a string: in double quotes, with '"' and '\' escaped
JsonString(s) ==
    LET Escaped[i \in 0..Len(s)] ==
            IF i = 0 THEN ""
            ELSE Escaped[i - 1] \o
                 (IF CharAt(s, i) = "\"" THEN "\\\""
                  ELSE IF CharAt(s, i) = "\\" THEN "\\\\"
                  ELSE CharAt(s, i))
    IN "\"" \o Escaped[Len(s)] \o "\""

\* JSON.stringify(value, null, 2) of an array or an object with the given
\* serialized members: each member on a line of its own, indented two spaces
\* per level, between the opening and the closing bracket; without members
\* the two brackets alone.
JsonBlock(opening, texts, closing, depth) ==
    LET Indent(d) == SubSeq("                ", 1, 2 * d)
        Joined[i \in 0..Len(texts)] ==
            IF i = 0 THEN ""
            ELSE Joined[i - 1] \o (IF i = 1 THEN "" ELSE ",") \o "\n"
                 \o Indent(depth + 1) \o texts[i]
    IN IF Len(texts) = 0 THEN opening \o closing
       ELSE opening \o Joined[Len(texts)] \o "\n" \o Indent(depth) \o closing

\* serializeDossier: JSON.stringify(dossier, null, 2). An object is written
\* as its properties in insertion order; a property whose value is undefined
\* is left out; a number is written in decimal.
serializeDossier(dossier) ==
    LET Property(key, text) == <<JsonString(key) \o ": " \o text>>
        OptionalString(key, x) ==
            IF x = Undefined THEN <<>> ELSE Property(key, JsonString(x.value))
        OptionalNumber(key, x) ==
            IF x = Undefined THEN <<>> ELSE Property(key, ToString(x.value))
        JsonObject(properties, depth) == JsonBlock("{", properties, "}", depth)
        JsonArray(texts, depth) == JsonBlock("[", texts, "]", depth)
        JsonStrings(strings, depth) ==
            JsonArray([i \in 1..Len(strings) |-> JsonString(strings[i])], depth)
        SerializeAddress(a, depth) ==
            JsonObject(Property("line1", JsonString(a.line1))
                       \o OptionalString("line2", a.line2)
                       \o Property("town", JsonString(a.town))
                       \o Property("postcode", JsonString(a.postcode))
                       \o Property("country", JsonString(a.country)), depth)
        SerializeCompany(c, depth) ==
            JsonObject(Property("companyNumber", JsonString(c.companyNumber))
                       \o Property("name", JsonString(c.name))
                       \o Property("status", JsonString(c.status))
                       \o Property("type", JsonString(c.type))
                       \o Property("incorporationDate", JsonString(c.incorporationDate))
                       \o Property("registeredOffice",
                                   SerializeAddress(c.registeredOffice, depth + 1))
                       \o Property("sicCodes", JsonStrings(c.sicCodes, depth + 1)), depth)
        SerializeOfficer(o, depth) ==
            JsonObject(Property("name", JsonString(o.name))
                       \o Property("role", JsonString(o.role))
                       \o OptionalString("appointedOn", o.appointedOn)
                       \o OptionalString("resignedOn", o.resignedOn)
                       \o Property("nationality", JsonString(o.nationality))
                       \o OptionalNumber("birthMonth", o.birthMonth)
                       \o OptionalNumber("birthYear", o.birthYear), depth)
        SerializePSC(c, depth) ==
            JsonObject(Property("name", JsonString(c.name))
                       \o Property("natureOfControl",
                                   JsonStrings(c.natureOfControl, depth + 1))
                       \o OptionalString("notifiedOn", c.notifiedOn)
                       \o OptionalString("ceasedOn", c.ceasedOn)
                       \o Property("nationality", JsonString(c.nationality)), depth)
        SerializeRiskFlag(f, depth) ==
            JsonObject(Property("id", JsonString(f.id))
                       \o Property("title", JsonString(f.title))
                       \o Property("severity", JsonString(f.severity))
                       \o Property("explanation", JsonString(f.explanation))
                       \o OptionalString("evidenceUrl", f.evidenceUrl), depth)
        SerializeModernSlavery(m, depth) ==
            JsonObject(Property("url", JsonString(m.url))
                       \o Property("signedBy", JsonString(m.signedBy))
                       \o Property("dateSigned", JsonString(m.dateSigned))
                       \o Property("compliant",
                                   IF m.compliant THEN "true" ELSE "false"), depth)
    IN JsonObject(
        Property("company", SerializeCompany(dossier.company, 1))
        \o Property("officers",
              JsonArray([i \in 1..Len(dossier.officers) |->
                           SerializeOfficer(dossier.officers[i], 2)], 1))
        \o Property("pscs",
              JsonArray([i \in 1..Len(dossier.pscs) |->
                           SerializePSC(dossier.pscs[i], 2)], 1))
        \o Property("riskFlags",
              JsonArray([i \in 1..Len(dossier.riskFlags) |->
                           SerializeRiskFlag(dossier.riskFlags[i], 2)], 1))
        \o (IF dossier.modernSlavery = Undefined THEN <<>>
            ELSE Property("modernSlavery",
                          SerializeModernSlavery(dossier.modernSlavery, 1)))
        \o Property("generatedAt", JsonString(dossier.generatedAt)), 0)

\* C13 - build determinism: two buildDossier calls on one input with the
\* same generatedAt argument return dossiers whose serializations are
\* identical, and two calls with different generatedAt arguments return
\* dossiers that serialize identically once generatedAt is set aside.
C13_BuildDeterminism ==
    Len(output) = 2 =>
       /\ (/\ input.generatedAt[1] # Undefined
           /\ input.generatedAt[1] = input.generatedAt[2])
             => serializeDossier(output[1].dossier) = serializeDossier(output[2].dossier)
       /\ input.generatedAt[1] # input.generatedAt[2]
             => serializeDossier([output[1].dossier EXCEPT !.generatedAt = ""])
                   = serializeDossier([output[2].dossier EXCEPT !.generatedAt = ""])

\* A serialization as JSON.stringify lays it out
SerializedExample ==
    /\ Len(output) = 1
    /\ serializeDossier(output[1].dossier) =
       "{\n  \"company\": {\n    \"companyNumber\": \"00000002\",\n    \"name\": \"OLDCO LTD\",\n    \"status\": \"dissolved\",\n    \"type\": \"ltd\",\n    \"incorporationDate\": \"\",\n    \"registeredOffice\": {\n      \"line1\": \"\",\n      \"town\": \"\",\n      \"postcode\": \"\",\n      \"country\": \"\"\n    },\n    \"sicCodes\": []\n  },\n  \"officers\": [\n    {\n      \"name\": \"adams\",\n      \"role\": \"Corporate Secretary\",\n      \"appointedOn\": \"\",\n      \"resignedOn\": \"2021-03-01\",\n      \"nationality\": \"\"\n    }\n  ],\n  \"pscs\": [],\n  \"riskFlags\": [],\n  \"generatedAt\": \"2024-03-01T12:00:00.000Z\"\n}"

\* --------------------------------------------------------------- risk rules
\* FlagSeverity
FlagSeverity == [HIGH |-> "HIGH", MEDIUM |-> "MEDIUM", LOW |-> "LOW", INFO |-> "INFO"]

\* x === true for an optional boolean x
IsTrue(x) == x = Defined(TRUE)

\* checkF1StatusNotActive
checkF1StatusNotActive(flagsInput) ==
    LET status == flagsInput.dossier.company.status
        profileEvidence == flagsInput.rawInput.evidence.profile
    IN IF status # "active"
       THEN [id |-> "F1",
             title |-> "Company not active",
             severity |-> FlagSeverity.HIGH,
             explanation |-> "Company status is \"" \o status
                 \o "\". The company is not currently active and may not be able to fulfil obligations.",
             evidenceUrl |-> profileEvidence.publicUrl]
       ELSE Undefined

\* Variant: only accounts.overdue is read.
checkF2AccountsOverallOnly(flagsInput) ==
    LET profile == flagsInput.rawInput.profile
        profileEvidence == flagsInput.rawInput.evidence.profile
        nextAccounts == OptionalChain(profile.accounts, "next_accounts")
        accountsOverdue == IsTrue(OptionalChain(profile.accounts, "overdue"))
        dueDate == OptionalChain(nextAccounts, "due_on")
        dueDateInfo == IF Truthy(dueDate) THEN " (due: " \o dueDate.value \o ")" ELSE ""
    IN IF accountsOverdue
       THEN [id |-> "F2",
             title |-> "Accounts overdue",
             severity |-> FlagSeverity.MEDIUM,
             explanation |-> "The company has overdue accounts" \o dueDateInfo
                 \o ". This may indicate financial difficulties or poor governance.",
             evidenceUrl |-> profileEvidence.publicUrl]
       ELSE Undefined

\* checkF2AccountsOverdue
checkF2AccountsOverdue(flagsInput) ==
    LET profile == flagsInput.rawInput.profile
        profileEvidence == flagsInput.rawInput.evidence.profile
        nextAccounts == OptionalChain(profile.accounts, "next_accounts")
        accountsOverdue ==
            \/ IsTrue(OptionalChain(profile.accounts, "overdue"))
            \/ IsTrue(OptionalChain(nextAccounts, "overdue"))
        dueDate == OptionalChain(nextAccounts, "due_on")
        dueDateInfo == IF Truthy(dueDate) THEN " (due: " \o dueDate.value \o ")" ELSE ""
    IN IF accountsOverdue
       THEN [id |-> "F2",
             title |-> "Accounts overdue",
             severity |-> FlagSeverity.MEDIUM,
             explanation |-> "The company has overdue accounts" \o dueDateInfo
                 \o ". This may indicate financial difficulties or poor governance.",
             evidenceUrl |-> profileEvidence.publicUrl]
       ELSE Undefined

\* checkF3ConfirmationStatementOverdue
checkF3ConfirmationStatementOverdue(flagsInput) ==
    LET profile == flagsInput.rawInput.profile
        profileEvidence == flagsInput.rawInput.evidence.profile
    IN IF IsTrue(OptionalChain(profile.confirmation_statement, "overdue"))
       THEN LET nextDue == profile.confirmation_statement.next_due
                dueInfo == IF Truthy(nextDue) THEN " (due: " \o nextDue.value \o ")" ELSE ""
            IN [id |-> "F3",
                title |-> "Confirmation statement overdue",
                severity |-> FlagSeverity.MEDIUM,
                explanation |-> "The company has an overdue confirmation statement" \o dueInfo
                    \o ". This is a legal requirement and may indicate poor governance.",
                evidenceUrl |-> profileEvidence.publicUrl]
       ELSE Undefined

\* checkF4InsolvencyIndicator
checkF4InsolvencyIndicator(flagsInput) ==
    LET profile == flagsInput.rawInput.profile
        profileEvidence == flagsInput.rawInput.evidence.profile
        hasInsolvencyHistory == IsTrue(profile.has_insolvency_history)
        hasBeenLiquidated == IsTrue(profile.has_been_liquidated)
        indicators ==
            IF hasInsolvencyHistory /\ hasBeenLiquidated
            THEN "insolvency history and liquidation history"
            ELSE IF hasInsolvencyHistory THEN "insolvency history"
            ELSE "liquidation history"
    IN IF hasInsolvencyHistory \/ hasBeenLiquidated
       THEN [id |-> "F4",
             title |-> "Insolvency indicator",
             severity |-> FlagSeverity.HIGH,
             explanation |-> "The company has " \o indicators
                 \o ". This indicates significant financial distress.",
             evidenceUrl |-> profileEvidence.publicUrl]
       ELSE Undefined

\* Variant: the statements link is not looked at.
checkF5PSCMissingIgnoringLink(flagsInput) ==
    LET pscs == flagsInput.dossier.pscs
        rawPscs == flagsInput.rawInput.pscs
        pscsEvidence == flagsInput.rawInput.evidence.pscs
        activePSCs == SelectSeq(pscs, LAMBDA c : ~Truthy(c.ceasedOn))
        hasStatementsLink ==
            Truthy(rawPscs.links.persons_with_significant_control_statements)
    IN IF Len(activePSCs) = 0
       THEN [id |-> "F5",
             title |-> "PSC missing",
             severity |-> FlagSeverity.HIGH,
             explanation |-> "The company has no active Persons with Significant Control (PSCs) and no valid statement explaining why. This is a legal requirement.",
             evidenceUrl |-> pscsEvidence.publicUrl]
       ELSE Undefined

\* checkF5PSCMissing
checkF5PSCMissing(flagsInput) ==
    LET pscs == flagsInput.dossier.pscs
        rawPscs == flagsInput.rawInput.pscs
        pscsEvidence == flagsInput.rawInput.evidence.pscs
        activePSCs == SelectSeq(pscs, LAMBDA c : ~Truthy(c.ceasedOn))
        hasStatementsLink ==
            Truthy(rawPscs.links.persons_with_significant_control_statements)
    IN IF Len(activePSCs) = 0 /\ ~hasStatementsLink
       THEN [id |-> "F5",
             title |-> "PSC missing",
             severity |-> FlagSeverity.HIGH,
             explanation |-> "The company has no active Persons with Significant Control (PSCs) and no valid statement explaining why. This is a legal requirement.",
             evidenceUrl |-> pscsEvidence.publicUrl]
       ELSE Undefined

\* new Date(dateStr) of a date-time string: 'YYYY-MM-DD' is midnight UTC,
\* 'YYYY-MM-DDTHH:mm:ss.sssZ' is the UTC time it names, a string of no such
\* form is the Invalid Date. A valid date is its UTC year, month (1..12), day
\* and millisecond of the day.
InvalidDate == [invalid |-> TRUE]

\* The value of a decimal digit
DigitValues == [c \in {CharAt("0123456789", i) : i \in 1..10} |->
                   CHOOSE d \in 0..9 : CharAt("0123456789", d + 1) = c]

\* The days of a month of the Gregorian calendar
DaysInMonth(year, month) ==
    LET IsLeapYear == year % 4 = 0 /\ (year % 100 # 0 \/ year % 400 = 0)
    IN IF month = 2 THEN (IF IsLeapYear THEN 29 ELSE 28)
       ELSE IF month \in {4, 6, 9, 11} THEN 30
       ELSE 31

NewDate(dateStr) ==
    LET n == Len(dateStr)
        IsDigits(s) == \A i \in 1..Len(s) : CharAt(s, i) \in DOMAIN DigitValues
        ParseDigits(s) ==
            LET Value[i \in 0..Len(s)] ==
                    IF i = 0 THEN 0
                    ELSE 10 * Value[i - 1] + DigitValues[CharAt(s, i)]
            IN Value[Len(s)]
        dateShape ==
            /\ n \in {10, 24}
            /\ CharAt(dateStr, 5) = "-" /\ CharAt(dateStr, 8) = "-"
            /\ IsDigits(SubSeq(dateStr, 1, 4))
            /\ IsDigits(SubSeq(dateStr, 6, 7))
            /\ IsDigits(SubSeq(dateStr, 9, 10))
        timeShape ==
            n = 24 =>
              /\ CharAt(dateStr, 11) = "T" /\ CharAt(dateStr, 14) = ":"
              /\ CharAt(dateStr, 17) = ":" /\ CharAt(dateStr, 20) = "."
              /\ CharAt(dateStr, 24) = "Z"
              /\ IsDigits(SubSeq(dateStr, 12, 13))
              /\ IsDigits(SubSeq(dateStr, 15, 16))
              /\ IsDigits(SubSeq(dateStr, 18, 19))
              /\ IsDigits(SubSeq(dateStr, 21, 23))
    IN IF ~(dateShape /\ timeShape) THEN InvalidDate
       ELSE LET year == ParseDigits(SubSeq(dateStr, 1, 4))
                month == ParseDigits(SubSeq(dateStr, 6, 7))
                day == ParseDigits(SubSeq(dateStr, 9, 10))
                hours == IF n = 24 THEN ParseDigits(SubSeq(dateStr, 12, 13)) ELSE 0
                minutes == IF n = 24 THEN ParseDigits(SubSeq(dateStr, 15, 16)) ELSE 0
                seconds == IF n = 24 THEN ParseDigits(SubSeq(dateStr, 18, 19)) ELSE 0
                millis == IF n = 24 THEN ParseDigits(SubSeq(dateStr, 21, 23)) ELSE 0
            IN IF /\ month \in 1..12
                  /\ day \in 1..DaysInMonth(year, month)
                  /\ hours < 24 /\ minutes < 60 /\ seconds < 60
               THEN [year |-> year, month |-> month, day |-> day,
                     ms |-> ((hours * 60 + minutes) * 60 + seconds) * 1000 + millis]
               ELSE InvalidDate

\* date.setMonth(monthIndex) with the process in UTC: monthIndex counts from 0
\* and may lie outside 0..11; a day the target month does not have runs over
\* into the next month.
SetMonth(date, monthIndex) ==
    IF date = InvalidDate THEN InvalidDate
    ELSE LET year == date.year + (monthIndex \div 12)
             month == (monthIndex % 12) + 1
             days == DaysInMonth(year, month)
         IN IF date.day <= days
            THEN [date EXCEPT !.year = year, !.month = month]
            ELSE [date EXCEPT !.year = year, !.month = month + 1,
                              !.day = date.day - days]

\* subtractMonths
subtractMonths(dateStr, months) ==
    LET date == NewDate(dateStr)
    IN IF date = InvalidDate THEN InvalidDate
       ELSE SetMonth(date, (date.month - 1) - months)

\* a <= b on Date objects; a comparison with the Invalid Date is false
DateLeq(a, b) ==
    /\ a # InvalidDate
    /\ b # InvalidDate
    /\ \/ a.year < b.year
       \/ a.year = b.year /\ a.month < b.month
       \/ a.year = b.year /\ a.month = b.month /\ a.day < b.day
       \/ a.year = b.year /\ a.month = b.month /\ a.day = b.day /\ a.ms <= b.ms

\* isWithinWindow
isWithinWindow(dateStr, windowStart, windowEnd) ==
    LET date == NewDate(dateStr)
    IN DateLeq(windowStart, date) /\ DateLeq(date, windowEnd)

\* The default value of checkF6FrequentOfficerChanges' config parameter
DefaultOfficerChanges == [lookbackMonths |-> 12, threshold |-> 3]

\* Variant: an officer appointed and resigned in the window is one change.
checkF6CountingOfficersOnce(flagsInput, officerChanges) ==
    LET config == IF officerChanges = Undefined THEN DefaultOfficerChanges
                  ELSE officerChanges
        officers == flagsInput.dossier.officers
        officersEvidence == flagsInput.rawInput.evidence.officers
        windowEnd == NewDate(flagsInput.referenceDate)
        windowStart == subtractMonths(flagsInput.referenceDate, config.lookbackMonths)
        appointmentsInWindow ==
            Len(SelectSeq(officers, LAMBDA officer :
                   /\ Truthy(officer.appointedOn)
                   /\ isWithinWindow(officer.appointedOn.value, windowStart, windowEnd)))
        resignationsInWindow ==
            Len(SelectSeq(officers, LAMBDA officer :
                   /\ Truthy(officer.resignedOn)
                   /\ isWithinWindow(officer.resignedOn.value, windowStart, windowEnd)))
        totalChanges ==
            Len(SelectSeq(officers, LAMBDA officer :
                   \/ /\ Truthy(officer.appointedOn)
                      /\ isWithinWindow(officer.appointedOn.value, windowStart, windowEnd)
                   \/ /\ Truthy(officer.resignedOn)
                      /\ isWithinWindow(officer.resignedOn.value, windowStart, windowEnd)))
    IN IF totalChanges >= config.threshold
       THEN [id |-> "F6",
             title |-> "Frequent officer changes",
             severity |-> FlagSeverity.MEDIUM,
             explanation |-> ToString(totalChanges) \o " officer changes in the last "
                 \o ToString(config.lookbackMonths) \o " months ("
                 \o ToString(appointmentsInWindow) \o " appointments, "
                 \o ToString(resignationsInWindow)
                 \o " resignations). This may indicate instability.",
             evidenceUrl |-> officersEvidence.publicUrl]
       ELSE Undefined

\* checkF6FrequentOfficerChanges
checkF6FrequentOfficerChanges(flagsInput, officerChanges) ==
    LET config == IF officerChanges = Undefined THEN DefaultOfficerChanges
                  ELSE officerChanges
        officers == flagsInput.dossier.officers
        officersEvidence == flagsInput.rawInput.evidence.officers
        windowEnd == NewDate(flagsInput.referenceDate)
        windowStart == subtractMonths(flagsInput.referenceDate, config.lookbackMonths)
        appointmentsInWindow ==
            Len(SelectSeq(officers, LAMBDA officer :
                   /\ Truthy(officer.appointedOn)
                   /\ isWithinWindow(officer.appointedOn.value, windowStart, windowEnd)))
        resignationsInWindow ==
            Len(SelectSeq(officers, LAMBDA officer :
                   /\ Truthy(officer.resignedOn)
                   /\ isWithinWindow(officer.resignedOn.value, windowStart, windowEnd)))
        totalChanges == appointmentsInWindow + resignationsInWindow
    IN IF totalChanges >= config.threshold
       THEN [id |-> "F6",
             title |-> "Frequent officer changes",
             severity |-> FlagSeverity.MEDIUM,
             explanation |-> ToString(totalChanges) \o " officer changes in the last "
                 \o ToString(config.lookbackMonths) \o " months ("
                 \o ToString(appointmentsInWindow) \o " appointments, "
                 \o ToString(resignationsInWindow)
                 \o " resignations). This may indicate instability.",
             evidenceUrl |-> officersEvidence.publicUrl]
       ELSE Undefined

\* Variant: the rule does not look at the company status.
checkF7NotGatedByStatus(flagsInput) ==
    LET modernSlavery == flagsInput.dossier.modernSlavery
        profileEvidence == flagsInput.rawInput.evidence.profile
    IN IF modernSlavery = Undefined
       THEN [id |-> "F7",
             title |-> "Modern slavery statement missing",
             severity |-> FlagSeverity.MEDIUM,
             explanation |-> "No modern slavery statement found. Large companies (turnover > £36M) are legally required to publish one annually.",
             evidenceUrl |-> profileEvidence.publicUrl]
       ELSE Undefined

\* checkF7ModernSlaveryMissing
checkF7ModernSlaveryMissing(flagsInput) ==
    LET company == flagsInput.dossier.company
        modernSlavery == flagsInput.dossier.modernSlavery
        profileEvidence == flagsInput.rawInput.evidence.profile
    IN IF company.status # "active" THEN Undefined
       ELSE IF modernSlavery = Undefined
       THEN [id |-> "F7",
             title |-> "Modern slavery statement missing",
             severity |-> FlagSeverity.MEDIUM,
             explanation |-> "No modern slavery statement found. Large companies (turnover > £36M) are legally required to publish one annually.",
             evidenceUrl |-> profileEvidence.publicUrl]
       ELSE Undefined

\* -------------------------------------------------------- risk flags engine
DEFAULT_CONFIG == [officerChanges |-> [lookbackMonths |-> 12, threshold |-> 3]]

\* The compare function of the flag list
FlagCompareFn(a, b) == LocaleCompare(a.id, b.id)

\* Variant of computeRiskFlags: the flags are sorted by id descending.
computeRiskFlagsDescending(dossier, rawInput, referenceDate, config) ==
    LET flagsInput == [dossier |-> dossier, rawInput |-> rawInput,
                       referenceDate |-> referenceDate]
        engineConfig == IF config = Undefined THEN DEFAULT_CONFIG ELSE config
        potentialFlags ==
            <<checkF1StatusNotActive(flagsInput),
              checkF2AccountsOverdue(flagsInput),
              checkF3ConfirmationStatementOverdue(flagsInput),
              checkF4InsolvencyIndicator(flagsInput),
              checkF5PSCMissing(flagsInput),
              checkF6FrequentOfficerChanges(flagsInput, engineConfig.officerChanges),
              checkF7ModernSlaveryMissing(flagsInput)>>
        flags == SelectSeq(potentialFlags, LAMBDA flag : flag # Undefined)
    IN [flags |-> ArraySort(flags, [a, b \in Elements(flags) |-> LocaleCompare(b.id, a.id)])]

\* computeRiskFlags; an omitted config is DEFAULT_CONFIG
computeRiskFlags(dossier, rawInput, referenceDate, config) ==
    LET flagsInput == [dossier |-> dossier, rawInput |-> rawInput,
                       referenceDate |-> referenceDate]
        engineConfig == IF config = Undefined THEN DEFAULT_CONFIG ELSE config
        potentialFlags ==
            <<checkF1StatusNotActive(flagsInput),
              checkF2AccountsOverdue(flagsInput),
              checkF3ConfirmationStatementOverdue(flagsInput),
              checkF4InsolvencyIndicator(flagsInput),
              checkF5PSCMissing(flagsInput),
              checkF6FrequentOfficerChanges(flagsInput, engineConfig.officerChanges),
              checkF7ModernSlaveryMissing(flagsInput)>>
        flags == SelectSeq(potentialFlags, LAMBDA flag : flag # Undefined)
    IN [flags |-> ArraySort(flags, [a, b \in Elements(flags) |-> FlagCompareFn(a, b)])]

\* ------------------------------------------------- inputs of the risk engine
\* interface CompanyProfileResponse: active and dissolved companies with
\* accounts, confirmation statement and insolvency indicators absent, clean
\* or overdue
FlagProfiles ==
    LET AccountsValues ==
            {Undefined,
             [overdue |-> Defined(TRUE), next_accounts |-> Undefined],
             [overdue |-> Defined(FALSE),
              next_accounts |-> [overdue |-> Defined(TRUE),
                                 due_on |-> Defined("2024-03-31")]],
             ActiveProfile.accounts}
        ConfirmationStatementValues ==
            {Undefined,
             [overdue |-> Defined(TRUE), next_due |-> Defined("2024-05-14")],
             ActiveProfile.confirmation_statement}
        InsolvencyValues ==
            {[has_insolvency_history |-> Undefined, has_been_liquidated |-> Undefined],
             [has_insolvency_history |-> Defined(TRUE),
              has_been_liquidated |-> Defined(FALSE)],
             [has_insolvency_history |-> Defined(FALSE),
              has_been_liquidated |-> Defined(TRUE)]}
    IN {[ActiveProfile EXCEPT
            !.company_status = status,
            !.accounts = accounts,
            !.confirmation_statement = statement,
            !.has_insolvency_history = insolvency.has_insolvency_history,
            !.has_been_liquidated = insolvency.has_been_liquidated] :
          status \in {"active", "dissolved"}, accounts \in AccountsValues,
          statement \in ConfirmationStatementValues, insolvency \in InsolvencyValues}

\* interface OfficersResponse: no officers; three appointed in the year
\* before EngineClock; one appointed and resigned in that year and one
\* without an appointment date; one appointed long before; two appointed on
\* the first and the last day of the year before 2025-01-15 and one without
\* an appointment date who resigned on the first day
FlagOfficers ==
    LET OfficerItemOn(name, appointed_on, resigned_on) ==
            [name |-> name,
             officer_role |-> "director",
             appointed_on |-> appointed_on,
             resigned_on |-> resigned_on,
             nationality |-> Undefined,
             date_of_birth |-> Undefined]
    IN {[items |-> <<>>],
        [items |-> <<OfficerItemOn("A", Defined("2023-08-01"), Undefined),
                     OfficerItemOn("B", Defined("2024-01-10"), Undefined),
                     OfficerItemOn("C", Defined("2024-06-30"), Undefined)>>],
        [items |-> <<OfficerItemOn("A", Defined("2024-01-10"), Defined("2024-05-01")),
                     OfficerItemOn("B", Undefined, Undefined)>>],
        [items |-> <<OfficerItemOn("A", Defined("2015-03-01"), Undefined)>>],
        [items |-> <<OfficerItemOn("A", Defined("2024-01-15"), Undefined),
                     OfficerItemOn("B", Defined("2025-01-15"), Undefined),
                     OfficerItemOn("C", Undefined, Defined("2024-01-15"))>>]}

\* interface PSCsResponse: no PSC, with and without a statements link; a
\* ceased PSC only; a ceased and an active PSC
FlagPSCs ==
    LET ActivePSCItem == CHOOSE item \in PSCItems : item.ceased_on = Undefined
        CeasedPSCItem == CHOOSE item \in PSCItems : item.ceased_on # Undefined
        NoLink == [persons_with_significant_control_statements |-> Undefined]
    IN {[items |-> <<>>, links |-> NoLink],
        [items |-> <<>>,
         links |-> [persons_with_significant_control_statements |->
                       Defined(PSCStatementsLink)]],
        [items |-> <<CeasedPSCItem>>, links |-> NoLink],
        [items |-> <<CeasedPSCItem, ActivePSCItem>>, links |-> NoLink]}

\* interface DossierInput: the registry result may also be a found statement
\* without a summary url, and the officers evidence has no public url
FlagDossierInputs ==
    [profile : FlagProfiles,
     officers : FlagOfficers,
     pscs : FlagPSCs,
     modernSlavery :
        RegistryResults \cup {[found |-> TRUE, statementSummaryUrl |-> Undefined]},
     evidence :
        {[profile |-> EvidenceFor(ProfileApiUrl, "2024-06-01T00:00:00.000Z", FALSE),
          officers |-> [EvidenceFor(OfficersApiUrl, "2024-06-01T00:00:00.000Z", FALSE)
                           EXCEPT !.publicUrl = Undefined],
          pscs |-> EvidenceFor(PSCsApiUrl, "2024-06-01T00:00:00.000Z", TRUE)]}]

\* The reference date and the config of a computeRiskFlags call: the route
\* passes dossier.generatedAt and no config; other callers pass a date of their
\* own, a string that is no date, a config without officerChanges or one with
\* its own window and threshold.
EngineClock == "2024-07-01T09:00:00.000Z"

EngineCalls ==
    {[referenceDate |-> EngineClock, config |-> Undefined],
     [referenceDate |-> EngineClock, config |-> [officerChanges |-> Undefined]],
     [referenceDate |-> EngineClock,
      config |-> [officerChanges |-> [lookbackMonths |-> 6, threshold |-> 1]]],
     [referenceDate |-> "2025-01-15", config |-> Undefined],
     [referenceDate |-> "",
      config |-> [officerChanges |-> [lookbackMonths |-> 12, threshold |-> 0]]]}

\* ----------------------------------------- specification: computeRiskFlags
InitFlags ==
    /\ InitCache
    /\ InitNoMem
    /\ InitNoKeys
    /\ input \in [rawInput : FlagDossierInputs, engine : EngineCalls]
    /\ output = Undefined

\* The dossier is built from the raw input as the route builds it, then the
\* flags are computed from the dossier and the same raw input.
CallComputeRiskFlags ==
    /\ output = Undefined
    /\ LET dossier == buildDossier(input.rawInput, Undefined, EngineClock).dossier
       IN output' = [dossier |-> dossier,
                     flags |-> computeRiskFlags(dossier, input.rawInput,
                                                input.engine.referenceDate,
                                                input.engine.config).flags]
    /\ UNCHANGED <<cacheVars, keyVars, memVars, input>>

NextFlags == CallComputeRiskFlags

SpecFlags == InitFlags /\ [][NextFlags]_vars

\* type FlagId, in lexicographic order
FlagIds == <<"F1", "F2", "F3", "F4", "F5", "F6", "F7">>

\* The place of an id in FlagIds, 0 for any other string
FlagIdIndex(id) ==
    IF \E k \in 1..Len(FlagIds) : FlagIds[k] = id
    THEN CHOOSE k \in 1..Len(FlagIds) : FlagIds[k] = id
    ELSE 0

HasFlag(flags, id) == \E i \in 1..Len(flags) : flags[i].id = id

\* C19 - the flags computeRiskFlags returns have ids from F1..F7 only, each
\* id at most once, in non-decreasing lexicographic order of id.
C19_FlagIdsOrdered ==
    output # Undefined =>
        /\ \A i \in 1..Len(output.flags) : FlagIdIndex(output.flags[i].id) # 0
        /\ \A i, j \in 1..Len(output.flags) :
              i < j => /\ output.flags[i].id # output.flags[j].id
                       /\ FlagIdIndex(output.flags[i].id) <= FlagIdIndex(output.flags[j].id)

\* A call that returned five flags, the first F1 and the last F6
C19_Witness ==
    /\ output # Undefined
    /\ Len(output.flags) = 5
    /\ output.flags[1].id = "F1"
    /\ output.flags[5].id = "F6"

\* C20 - for a dossier built by buildDossier from the input, the flags contain
\* F7 exactly when the company status is "active" and the registry lookup
\* reported found = false, and never both F1 and F7.
C20_F7GatedByStatus ==
    output # Undefined =>
        /\ HasFlag(output.flags, "F7")
              <=> /\ input.rawInput.profile.company_status = "active"
                  /\ ~input.rawInput.modernSlavery.found
        /\ ~(HasFlag(output.flags, "F1") /\ HasFlag(output.flags, "F7"))

\* A dissolved company without a statement: F1 and no F7
C20_Witness ==
    /\ output # Undefined
    /\ input.rawInput.profile.company_status = "dissolved"
    /\ ~input.rawInput.modernSlavery.found
    /\ HasFlag(output.flags, "F1")
    /\ ~HasFlag(output.flags, "F7")

\* The flag of the given id in a flag list that has one
FlagOf(flags, id) == flags[CHOOSE i \in 1..Len(flags) : flags[i].id = id]

\* C21 - rules F1 to F4 follow the rule table, each on its own part of the
\* profile: F1 iff the status is not "active" (HIGH), F2 iff accounts.overdue
\* or accounts.next_accounts.overdue is true (MEDIUM), F3 iff
\* confirmation_statement.overdue is true (MEDIUM), F4 iff
\* has_insolvency_history or has_been_liquidated is true (HIGH).
C21_RulesF1ToF4 ==
    output # Undefined =>
        LET profile == input.rawInput.profile
            flags == output.flags
            Severity(id, severity) ==
                HasFlag(flags, id) => FlagOf(flags, id).severity = severity
        IN /\ HasFlag(flags, "F1") <=> profile.company_status # "active"
           /\ HasFlag(flags, "F2")
                 <=> /\ profile.accounts # Undefined
                     /\ \/ profile.accounts.overdue = Defined(TRUE)
                        \/ /\ profile.accounts.next_accounts # Undefined
                           /\ profile.accounts.next_accounts.overdue = Defined(TRUE)
           /\ HasFlag(flags, "F3")
                 <=> /\ profile.confirmation_statement # Undefined
                     /\ profile.confirmation_statement.overdue = Defined(TRUE)
           /\ HasFlag(flags, "F4")
                 <=> \/ profile.has_insolvency_history = Defined(TRUE)
                     \/ profile.has_been_liquidated = Defined(TRUE)
           /\ Severity("F1", "HIGH") /\ Severity("F2", "MEDIUM")
           /\ Severity("F3", "MEDIUM") /\ Severity("F4", "HIGH")

\* A dissolved company whose next accounts alone are overdue, with a clean
\* confirmation statement and a liquidation: F1, F2 and F4 without F3
C21_Witness ==
    /\ output # Undefined
    /\ input.rawInput.profile.company_status = "dissolved"
    /\ input.rawInput.profile.accounts # Undefined
    /\ input.rawInput.profile.accounts.overdue = Defined(FALSE)
    /\ input.rawInput.profile.has_been_liquidated = Defined(TRUE)
    /\ HasFlag(output.flags, "F1") /\ HasFlag(output.flags, "F2")
    /\ ~HasFlag(output.flags, "F3") /\ HasFlag(output.flags, "F4")

\* C22 - F5 is present, with severity HIGH, exactly when the dossier has no
\* PSC without a ceased date and the raw PSC response has no statements link.
C22_RuleF5 ==
    output # Undefined =>
        LET pscs == output.dossier.pscs
            link == input.rawInput.pscs.links.persons_with_significant_control_statements
        IN /\ HasFlag(output.flags, "F5")
                 <=> /\ \A i \in 1..Len(pscs) : pscs[i].ceasedOn # Undefined
                     /\ link = Undefined
           /\ HasFlag(output.flags, "F5") => FlagOf(output.flags, "F5").severity = "HIGH"

\* No PSC and a statements link: no F5
C22_Witness ==
    /\ output # Undefined
    /\ output.dossier.pscs = <<>>
    /\ input.rawInput.pscs.links.persons_with_significant_control_statements # Undefined
    /\ ~HasFlag(output.flags, "F5")

\* The string has the given part
Contains(s, part) ==
    \E i \in 1..(Len(s) - Len(part) + 1) : SubSeq(s, i, i + Len(part) - 1) = part

applyRiskFlagsInPlace(dossier, flags) ==
    LET sorted == ArraySort(flags, [a, b \in Elements(flags) |-> LocaleCompare(a.id, b.id)])
    IN [returned |-> [dossier EXCEPT !.riskFlags = sorted],
        dossier |-> [dossier EXCEPT !.riskFlags = sorted],
        flags |-> flags]

\* applyRiskFlags: the dossier it returns and the two arguments as the call
\* leaves them ({...dossier} is a new object, [...flags] a new array).
applyRiskFlags(dossier, flags) ==
    LET sorted == ArraySort(flags, [a, b \in Elements(flags) |-> LocaleCompare(a.id, b.id)])
    IN [returned |-> [dossier EXCEPT !.riskFlags = sorted],
        dossier |-> dossier,
        flags |-> flags]

\* The raw inputs of the applyRiskFlags calls: companies without officers
\* and without a modern slavery statement
ApplyInputs ==
    {r \in FlagDossierInputs : r.officers.items = <<>> /\ ~r.modernSlavery.found}

\* applyRiskFlags on its own: the dossier is built from the raw input, the
\* flags are the computed ones, passed in ascending or in descending order.
InitApply ==
    /\ InitCache
    /\ InitNoMem
    /\ InitNoKeys
    /\ input \in [rawInput : ApplyInputs, descending : BOOLEAN]
    /\ output = Undefined

CallApplyRiskFlags ==
    /\ output = Undefined
    /\ \E dossier \in {buildDossier(input.rawInput, Undefined, EngineClock).dossier} :
       \E computed \in {computeRiskFlags(dossier, input.rawInput,
                                         dossier.generatedAt, Undefined).flags} :
       \E flags \in {IF input.descending
                     THEN [i \in 1..Len(computed) |-> computed[Len(computed) + 1 - i]]
                     ELSE computed} :
       \E call \in {applyRiskFlags(dossier, flags)} :
          output' = [original |-> dossier,
                     passed |-> flags,
                     returned |-> call.returned,
                     dossier |-> call.dossier,
                     flags |-> call.flags]
    /\ UNCHANGED <<cacheVars, keyVars, memVars, input>>

NextApply == CallApplyRiskFlags

SpecApply == InitApply /\ [][NextApply]_vars

\* C24 - applyRiskFlags leaves both arguments as they were (the dossier from
\* buildDossier keeps riskFlags = []), and the dossier it returns equals the
\* original in every field but riskFlags, which holds the flags passed in,
\* sorted by id ascending whatever their order was.
C24_ApplyRiskFlags ==
    output # Undefined =>
        /\ output.original.riskFlags = <<>>
        /\ output.dossier = output.original
        /\ output.flags = output.passed
        /\ [output.returned EXCEPT !.riskFlags = <<>>] = output.original
        /\ Len(output.returned.riskFlags) = Len(output.passed)
        /\ Elements(output.returned.riskFlags) = Elements(output.passed)
        /\ \A i, j \in 1..Len(output.returned.riskFlags) :
              i < j => FlagIdIndex(output.returned.riskFlags[i].id)
                          < FlagIdIndex(output.returned.riskFlags[j].id)

\* Flags passed in descending order, F7 first, come out with F7 last
C24_Witness ==
    /\ output # Undefined
    /\ Len(output.passed) >= 3
    /\ output.passed[1].id = "F7"
    /\ output.returned.riskFlags[Len(output.passed)].id = "F7"
    /\ output.dossier.riskFlags = <<>>

\* ------------------------------------- buildDossier and the day of birth
\* The input with the day of birth of every officer that has a date of birth
\* set to the given optional day
WithBirthDay(dossierInput, day) ==
    [dossierInput EXCEPT !.officers.items =
        [i \in 1..Len(@) |->
            IF @[i].date_of_birth = Undefined THEN @[i]
            ELSE [@[i] EXCEPT !.date_of_birth.day = day]]]

\* buildDossier called on two inputs that differ in the officers' day of
\* birth only: input is the first input and the day of the second.
InitBirth ==
    /\ InitCache
    /\ InitNoMem
    /\ InitNoKeys
    /\ input \in [dossierInput : {r \in DossierInputs : r.pscs.items = <<>>},
                  day : {Undefined, Defined(1), Defined(15), Defined(28)}]
    /\ output = <<>>

CallBuildDossierTwice ==
    /\ output = <<>>
    /\ output' = <<buildDossier(input.dossierInput,
                                Defined("2024-03-01T12:00:00.000Z"), "").dossier,
                   buildDossier(WithBirthDay(input.dossierInput, input.day),
                                Defined("2024-03-01T12:00:00.000Z"), "").dossier>>
    /\ UNCHANGED <<cacheVars, keyVars, memVars, input>>

NextBirth == CallBuildDossierTwice

SpecBirth == InitBirth /\ [][NextBirth]_vars

\* C25 - the day of birth of an officer does not reach the dossier: two
\* inputs that differ in officers' days of birth only give identical
\* dossiers; the month and the year of birth are copied when the officer has
\* a date of birth.
C25_BirthDayNotExposed ==
    output # <<>> =>
        LET items == input.dossierInput.officers.items
        IN /\ output[1] = output[2]
           /\ \A i \in 1..Len(items) :
                 \E j \in 1..Len(output[1].officers) :
                    /\ output[1].officers[j].name = items[i].name
                    /\ IF items[i].date_of_birth = Undefined
                       THEN /\ output[1].officers[j].birthMonth = Undefined
                            /\ output[1].officers[j].birthYear = Undefined
                       ELSE /\ output[1].officers[j].birthMonth
                                  = Defined(items[i].date_of_birth.month)
                            /\ output[1].officers[j].birthYear
                                  = Defined(items[i].date_of_birth.year)

\* Two inputs whose officer was born on the 15th and on the 1st of June 1970
C25_Witness ==
    /\ output # <<>>
    /\ input.day = Defined(1)
    /\ \E i \in 1..Len(input.dossierInput.officers.items) :
          /\ input.dossierInput.officers.items[i].date_of_birth # Undefined
          /\ input.dossierInput.officers.items[i].date_of_birth.day = Defined(15)
    /\ \E j \in 1..Len(output[2].officers) : output[2].officers[j].birthMonth = Defined(6)

\* C28 - a getOrFetchRaw call that is a hit leaves the store as it was, and
\* a call is a hit exactly when the store holds an entry for its key whose
\* expires_at lies after the current time, whatever ttl the call asks for.
C28_HitLeavesStore ==
    [][\A p \in Procs : \A req \in RequestsOf(p) :
          Call(p, req) =>
             /\ store' = store
             /\ IsHit(result'[p]) <=> LiveRows(store, generateCacheKey(req), now) # {}
             /\ \A other \in RequestsOf(p) :
                   SameTriple(other, req) =>
                      (getCacheEntry(store, generateCacheKey(other), now) # Null
                         <=> IsHit(result'[p]))]_vars

\* A hit on an entry stored for two seconds, one second after it was
\* stored, when an entry stored for one second would have expired
C28_Witness ==
    \E p \in Procs :
       /\ IsHit(result[p])
       /\ \E r \in store :
             /\ r.cache_key = result[p].cacheKey
             /\ r.expires_at = r.created_at + 2 * MsPerSecond
             /\ now = r.created_at + MsPerSecond

\* C29 - in the officers list of every dossier buildDossier returns, an
\* officer whose upstream record has no appointment date stands behind every
\* officer whose upstream record has one.
C29_UndatedOfficersLast ==
    \A call \in 1..Len(output) :
       LET officers == output[call].dossier.officers
           items == input.dossierInput.officers.items
           Dated(officer) ==
               \E k \in 1..Len(items) :
                  items[k].name = officer.name /\ items[k].appointed_on # Undefined
           Undated(officer) ==
               \E k \in 1..Len(items) :
                  items[k].name = officer.name /\ items[k].appointed_on = Undefined
       IN \A i, j \in 1..Len(officers) :
             (Undated(officers[i]) /\ Dated(officers[j])) => j < i

\* ---------------------------------------------------------------------
\* src/services/connectors/cache.ts: the connectors' in-memory Cache.
\* A JavaScript value is Undefined or Defined(x); an entry of the Map is
\* a row [key, value, expiresAt].
\* ---------------------------------------------------------------------

\* Revisions of the register the API may serve a document at
MaxRevision == 2

\* new Cache() without options
DefaultTTL == 5 * 60 * 1000

\* TTLs the Companies House connector passes to the cache
COMPANIES_HOUSE_TTL ==
    [SEARCH |-> 5 * 60 * 1000, PROFILE |-> 60 * 60 * 1000]

\* The instants at which Date.now() is read: the start, the last
\* millisecond of each TTL counted from the start, and the first after it.
ClockTimes ==
    {0, COMPANIES_HOUSE_TTL.SEARCH, COMPANIES_HOUSE_TTL.SEARCH + 1,
     COMPANIES_HOUSE_TTL.PROFILE, COMPANIES_HOUSE_TTL.PROFILE + 1}

\* Cache.get(key): the value, and the Map the call leaves behind (an
\* expired entry is deleted).
MemGet(entries, key, t) ==
    LET rows == {e \in entries : e.key = key}
    IN IF rows = {}
       THEN [value |-> Undefined, entries |-> entries]
       ELSE LET entry == CHOOSE e \in rows : TRUE
            IN IF t > entry.expiresAt
               THEN [value |-> Undefined, entries |-> entries \ rows]
               ELSE [value |-> entry.value, entries |-> entries]

\* Cache.set(key, value, ttl?)
MemSet(entries, key, value, ttl, t) ==
    LET expiresAt == t + (IF ttl = Undefined THEN DefaultTTL ELSE ttl.value)
    IN {e \in entries : e.key # key}
          \cup {[key |-> key, value |-> value, expiresAt |-> expiresAt]}

\* Time passes between two calls or while a promise is awaited.
TickMem ==
    /\ \E t \in ClockTimes : t > memNow /\ memNow' = t
    /\ UNCHANGED <<memStore, memPending, memResult>>
    /\ UNCHANGED <<cacheVars, keyVars, pureVars>>

\* Cache.getOrSet(key, factory, ttl?) up to its return or its await
GetOrSet(p, key, ttl) ==
    /\ memPending[p] = Undefined
    /\ LET cached == MemGet(memStore, key, memNow)
       IN /\ memStore' = cached.entries
          /\ IF cached.value # Undefined
             THEN /\ memResult' = [memResult EXCEPT
                        ![p] = [kind |-> "returned", value |-> cached.value]]
                  /\ UNCHANGED memPending
             ELSE /\ memPending' = [memPending EXCEPT
                        ![p] = [key |-> key, ttl |-> ttl]]
                  /\ memResult' = [memResult EXCEPT ![p] = Undefined]
    /\ UNCHANGED <<memNow, cacheVars, keyVars, pureVars>>

\* The awaited factory() resolves with value: set and return.
FactoryResolve(p, value) ==
    /\ memPending[p] # Undefined
    /\ memStore' = MemSet(memStore, memPending[p].key, value,
                          memPending[p].ttl, memNow)
    /\ memResult' = [memResult EXCEPT
          ![p] = [kind |-> "returned", value |-> value]]
    /\ memPending' = [memPending EXCEPT ![p] = Undefined]
    /\ UNCHANGED <<memNow, cacheVars, keyVars, pureVars>>

\* The awaited factory() rejects: getOrSet rejects before it reaches set.
FactoryReject(p) ==
    /\ memPending[p] # Undefined
    /\ memResult' = [memResult EXCEPT ![p] = [kind |-> "rejected"]]
    /\ memPending' = [memPending EXCEPT ![p] = Undefined]
    /\ UNCHANGED <<memNow, memStore, cacheVars, keyVars, pureVars>>

NextMem ==
    \/ TickMem
    \/ \E p \in Procs :
          \E ttl \in {Undefined, Defined(COMPANIES_HOUSE_TTL.PROFILE)} :
             GetOrSet(p, "k", ttl)
    \/ \E p \in Procs :
          \E value \in {Undefined, Defined("a"), Defined("b")} :
             FactoryResolve(p, value)
    \/ \E p \in Procs : FactoryReject(p)

SpecMem == Init /\ [][NextMem]_vars

\* The entries of the Map under key that have not expired at time t
MemLive(entries, key, t) ==
    {e \in entries : e.key = key /\ ~(t > e.expiresAt)}

\* C27 - getOrSet invokes the factory only when the key is absent or its
\* entry has expired (now > expiresAt); on a hit it returns the stored
\* value without invoking the factory; on a miss it stores the factory's
\* result with the given ttl, or with the default TTL, and returns it; when
\* the factory rejects, nothing is stored for the key.
C27_GetOrSet ==
    [][\A p \in Procs :
          /\ \A ttl \in {Undefined, Defined(COMPANIES_HOUSE_TTL.PROFILE)} :
                GetOrSet(p, "k", ttl) =>
                   LET live == MemLive(memStore, "k", memNow)
                   IN /\ memPending'[p] # Undefined <=> live = {}
                      /\ live # {} =>
                            /\ memResult'[p].kind = "returned"
                            /\ \E e \in live : memResult'[p].value = e.value
          /\ \A value \in {Undefined, Defined("a"), Defined("b")} :
                FactoryResolve(p, value) =>
                   LET ttl == memPending[p].ttl
                       length == IF ttl = Undefined THEN 5 * 60 * 1000
                                 ELSE ttl.value
                   IN /\ [key |-> "k", value |-> value,
                          expiresAt |-> memNow + length] \in memStore'
                      /\ Cardinality(memStore') = 1
                      /\ memResult'[p] = [kind |-> "returned", value |-> value]
          /\ FactoryReject(p) =>
                /\ memStore' = memStore
                /\ memResult'[p].kind = "rejected"]_vars

\* ---------------------------------------------------------------------
\* src/services/connectors/companies-house.ts: CompaniesHouseConnector
\* over the in-memory Cache and an injected fetch. A caller is either
\* idle or awaiting fetchFn (memPending holds the arguments fetchWithCache
\* was called with); memResult holds the ConnectorResponse of its last call.
\* A body the API serves is the document of the requested URL at some
\* revision of the register.
\* ---------------------------------------------------------------------

\* String.prototype.trim, the only white space being ' '
Trim(s) ==
    LET inner == {i \in 1..Len(s) : CharAt(s, i) # " "}
    IN IF inner = {} THEN ""
       ELSE SubSeq(s, CHOOSE i \in inner : \A j \in inner : i <= j,
                      CHOOSE i \in inner : \A j \in inner : j <= i)

\* new Date().toISOString() at t milliseconds into 1970-01-01
ToISOString(t) ==
    LET Two(n) == IF n < 10 THEN "0" \o ToString(n) ELSE ToString(n)
        Three(n) == IF n < 10 THEN "00" \o ToString(n)
                    ELSE IF n < 100 THEN "0" \o ToString(n) ELSE ToString(n)
    IN "1970-01-01T" \o Two(t \div 3600000) \o ":"
          \o Two((t \div 60000) % 60) \o ":"
          \o Two((t \div 1000) % 60) \o "." \o Three(t % 1000) \o "Z"

\* buildApiUrl(path, params): params is absent or { q: value }; a URL
\* query writes letters and digits as they are and ' ' as '+'.
buildApiUrl(path, q) ==
    LET COMPANIES_HOUSE_API_BASE ==
            "https://api.company-information.service.gov.uk"
        Encoded[i \in 0..Len(q.value)] ==
            IF i = 0 THEN ""
            ELSE Encoded[i - 1] \o
                 (IF CharAt(q.value, i) = " " THEN "+" ELSE CharAt(q.value, i))
    IN IF q = Undefined
       THEN COMPANIES_HOUSE_API_BASE \o path
       ELSE COMPANIES_HOUSE_API_BASE \o path \o "?q=" \o Encoded[Len(q.value)]

\* normalizeCompanyNumber: Null, or Defined(the number in upper case)
normalizeCompanyNumber(companyNumber) ==
    LET trimmed == Trim(companyNumber)
        Upper[i \in 0..Len(trimmed)] ==
            IF i = 0 THEN ""
            ELSE Upper[i - 1] \o ToUpperCase(CharAt(trimmed, i))
        normalized == Upper[Len(trimmed)]
        IsAlphanumeric(c) ==
            \/ \E k \in 1..Len(CapitalLetters) : CharAt(CapitalLetters, k) = c
            \/ c \in DOMAIN DigitValues
    IN IF Len(companyNumber) = 0 THEN Null
       ELSE IF /\ Len(normalized) >= 6 /\ Len(normalized) <= 8
               /\ \A i \in 1..Len(normalized) :
                     IsAlphanumeric(CharAt(normalized, i))
            THEN Defined(normalized)
            ELSE Null

createError(code, message, statusCode, apiUrl, details, t) ==
    [success |-> FALSE,
     error |-> [code |-> code, message |-> message,
                statusCode |-> statusCode, details |-> details],
     evidence |-> [apiUrl |-> apiUrl, fetchedAt |-> ToISOString(t),
                   fromCache |-> FALSE]]

createSuccess(data, apiUrl, fromCache, publicUrl, t) ==
    [success |-> TRUE,
     data |-> data,
     evidence |-> [apiUrl |-> apiUrl, publicUrl |-> publicUrl,
                   fetchedAt |-> ToISOString(t), fromCache |-> fromCache]]

\* fetchWithCache up to its return from the cache or its await of fetchFn
fetchWithCache(p, apiUrl, cacheKey, ttl, publicUrl) ==
    LET cached == MemGet(memStore, cacheKey, memNow)
    IN /\ memStore' = cached.entries
       /\ IF cached.value # Undefined
          THEN /\ memResult' = [memResult EXCEPT
                     ![p] = createSuccess(cached.value.value, apiUrl, TRUE,
                                          publicUrl, memNow)]
               /\ UNCHANGED memPending
          ELSE /\ memPending' = [memPending EXCEPT
                     ![p] = [apiUrl |-> apiUrl, cacheKey |-> cacheKey,
                             ttl |-> ttl, publicUrl |-> publicUrl]]
               /\ memResult' = [memResult EXCEPT ![p] = Undefined]

searchCompanies(p, query) ==
    LET trimmed == Trim(query)
        ToLowerCase(c) ==
            IF \E i \in 1..Len(CapitalLetters) : CharAt(CapitalLetters, i) = c
            THEN CharAt(SmallLetters,
                        CHOOSE i \in 1..Len(CapitalLetters) :
                           CharAt(CapitalLetters, i) = c)
            ELSE c
        Lower[i \in 0..Len(trimmed)] ==
            IF i = 0 THEN ""
            ELSE Lower[i - 1] \o ToLowerCase(CharAt(trimmed, i))
    IN /\ memPending[p] = Undefined
       /\ IF Len(trimmed) = 0
          THEN /\ memResult' = [memResult EXCEPT
                     ![p] = createError("INVALID_REQUEST",
                               "Search query cannot be empty", Undefined,
                               buildApiUrl("/search/companies", Defined(query)),
                               Undefined, memNow)]
               /\ UNCHANGED <<memStore, memPending>>
          ELSE fetchWithCache(p,
                  buildApiUrl("/search/companies", Defined(trimmed)),
                  "search:" \o Lower[Len(trimmed)],
                  COMPANIES_HOUSE_TTL.SEARCH, Undefined)
       /\ UNCHANGED <<memNow, cacheVars, keyVars, pureVars>>

getCompanyProfile(p, companyNumber) ==
    LET normalizedNumber == normalizeCompanyNumber(companyNumber)
    IN /\ memPending[p] = Undefined
       /\ IF normalizedNumber = Null
          THEN /\ memResult' = [memResult EXCEPT
                     ![p] = createError("INVALID_REQUEST",
                               "Invalid company number", Undefined,
                               buildApiUrl("/company/" \o companyNumber,
                                           Undefined),
                               Undefined, memNow)]
               /\ UNCHANGED <<memStore, memPending>>
          ELSE fetchWithCache(p,
                  buildApiUrl("/company/" \o normalizedNumber.value, Undefined),
                  "profile:" \o normalizedNumber.value,
                  COMPANIES_HOUSE_TTL.PROFILE,
                  Defined("https://find-and-update.company-information.service.gov.uk"
                             \o "/company/" \o normalizedNumber.value))
       /\ UNCHANGED <<memNow, cacheVars, keyVars, pureVars>>

\* fetchFn resolves with an ok response whose body parses to data
FetchOk(p, revision) ==
    /\ memPending[p] # Undefined
    /\ LET call == memPending[p]
           data == [document |-> call.apiUrl, revision |-> revision]
       IN /\ memStore' = MemSet(memStore, call.cacheKey, Defined(data),
                                Defined(call.ttl), memNow)
          /\ memResult' = [memResult EXCEPT
                ![p] = createSuccess(data, call.apiUrl, FALSE,
                                     call.publicUrl, memNow)]
    /\ memPending' = [memPending EXCEPT ![p] = Undefined]
    /\ UNCHANGED <<memNow, cacheVars, keyVars, pureVars>>

\* Variant: the body of an error response is cached like a result.
FetchHttpErrorCachingBody(p, status, errorBody) ==
    /\ memPending[p] # Undefined
    /\ memStore' = MemSet(memStore, memPending[p].cacheKey, errorBody,
                          Defined(memPending[p].ttl), memNow)
    /\ memResult' = [memResult EXCEPT
          ![p] = createError("UNKNOWN", "", Defined(status),
                             memPending[p].apiUrl, errorBody, memNow)]
    /\ memPending' = [memPending EXCEPT ![p] = Undefined]
    /\ UNCHANGED <<memNow, cacheVars, keyVars, pureVars>>

\* fetchFn resolves with a response that is not ok; errorBody is what
\* response.json() gives, Undefined when it throws.
FetchHttpError(p, status, errorBody) ==
    /\ memPending[p] # Undefined
    /\ LET mapHttpStatusToErrorCode ==
               IF status = 400 THEN "INVALID_REQUEST"
               ELSE IF status = 401 THEN "UNAUTHORIZED"
               ELSE IF status = 404 THEN "NOT_FOUND"
               ELSE IF status = 429 THEN "RATE_LIMITED"
               ELSE IF status >= 500 THEN "UPSTREAM_ERROR"
               ELSE "UNKNOWN"
           errorMessage ==
               IF errorBody # Undefined
               THEN errorBody.value.errors[1].error
               ELSE "Companies House API error: " \o ToString(status)
       IN memResult' = [memResult EXCEPT
             ![p] = createError(mapHttpStatusToErrorCode, errorMessage,
                                Defined(status), memPending[p].apiUrl,
                                errorBody, memNow)]
    /\ memPending' = [memPending EXCEPT ![p] = Undefined]
    /\ UNCHANGED <<memNow, memStore, cacheVars, keyVars, pureVars>>

\* fetchFn rejects, or the body of an ok response does not parse
FetchNetworkError(p, message) ==
    /\ memPending[p] # Undefined
    /\ memResult' = [memResult EXCEPT
          ![p] = createError("NETWORK_ERROR", message, Undefined,
                             memPending[p].apiUrl,
                             Defined([message |-> message]), memNow)]
    /\ memPending' = [memPending EXCEPT ![p] = Undefined]
    /\ UNCHANGED <<memNow, memStore, cacheVars, keyVars, pureVars>>

\* One caller makes its calls one after the other; time passes between
\* them and while fetchFn is awaited.
NextConnector ==
    \/ TickMem
    \/ \E p \in {"A"} : \E query \in {"Acme", "ACME", " acme", ""} :
          searchCompanies(p, query)
    \/ \E p \in {"A"} : \E companyNumber \in {"sc123456", "SC123456", "12"} :
          getCompanyProfile(p, companyNumber)
    \/ \E p \in {"A"} : \E revision \in 1..MaxRevision : FetchOk(p, revision)
    \/ \E p \in {"A"} : \E status \in {404, 500} :
          \E errorBody \in {Undefined,
                            Defined([errors |-> <<[error |-> "not-found"]>>])} :
             FetchHttpError(p, status, errorBody)
    \/ \E p \in {"A"} :
          \E message \in {"fetch failed", "Unexpected end of JSON input"} :
             FetchNetworkError(p, message)

SpecConnector == Init /\ [][NextConnector]_vars

\* The calls with a valid argument, each with the URL it asks the API for
\* and the TTL of its endpoint
ConnectorRequests ==
    {[endpoint |-> "search", argument |-> "Acme", ttl |-> 300000, apiUrl |->
        "https://api.company-information.service.gov.uk/search/companies?q=Acme"],
     [endpoint |-> "search", argument |-> "ACME", ttl |-> 300000, apiUrl |->
        "https://api.company-information.service.gov.uk/search/companies?q=ACME"],
     [endpoint |-> "search", argument |-> " acme", ttl |-> 300000, apiUrl |->
        "https://api.company-information.service.gov.uk/search/companies?q=acme"],
     [endpoint |-> "profile", argument |-> "sc123456", ttl |-> 3600000, apiUrl |->
        "https://api.company-information.service.gov.uk/company/SC123456"],
     [endpoint |-> "profile", argument |-> "SC123456", ttl |-> 3600000, apiUrl |->
        "https://api.company-information.service.gov.uk/company/SC123456"]}

\* This step is the start of a call by p: p was not awaiting fetchFn, and
\* now awaits it or holds another response.
CallStarted(p) ==
    /\ memPending[p] = Undefined
    /\ <<memPending[p], memResult[p]>>' # <<memPending[p], memResult[p]>>

\* This step is the end of a call by p that awaited fetchFn.
FetchEnded(p) ==
    /\ memPending[p] # Undefined
    /\ memPending'[p] = Undefined

\* The caller's last call ended in an error the API or the network caused.
EndedInError(p) ==
    /\ memPending[p] = Undefined
    /\ memResult[p] # Undefined
    /\ ~memResult[p].success
    /\ memResult[p].error.code # "INVALID_REQUEST"

\* The caller's last call fetched its data from the API at time t.
EndedInSuccessAt(p, t) ==
    /\ memPending[p] = Undefined
    /\ memResult[p] # Undefined
    /\ memResult[p].success
    /\ ~memResult[p].evidence.fromCache
    /\ memResult[p].evidence.fetchedAt = ToISOString(t)

\* C26 - the connector caches only successful responses. A call that ends
\* in an error (a response that is not ok, or a network error) stores
\* nothing: the Map is as it was and holds no entry for the call's cache
\* key; every error response has evidence.fromCache = false; the next call
\* for the same resource contacts the API again. After a call that fetched
\* its data from the API, the next call for the same resource within the
\* TTL returns the same data with fromCache = true and does not contact
\* the API.
C26_CachesOnlySuccess ==
    [][\A p \in Procs :
          /\ (memResult'[p] # Undefined /\ ~memResult'[p].success) =>
                memResult'[p].evidence.fromCache = FALSE
          /\ (FetchEnded(p) /\ ~memResult'[p].success) =>
                /\ memStore' = memStore
                /\ ~\E e \in memStore' : e.key = memPending[p].cacheKey
                /\ memResult'[p].evidence.apiUrl = memPending[p].apiUrl
          /\ \A request \in ConnectorRequests :
                (/\ CallStarted(p)
                 /\ request.apiUrl = IF memPending'[p] # Undefined
                                     THEN memPending'[p].apiUrl
                                     ELSE memResult'[p].evidence.apiUrl) =>
                   /\ (EndedInError(p)
                         /\ memResult[p].evidence.apiUrl = request.apiUrl) =>
                         memPending'[p] # Undefined
                   /\ \A t \in ClockTimes :
                         (/\ EndedInSuccessAt(p, t)
                          /\ memResult[p].evidence.apiUrl = request.apiUrl
                          /\ memNow <= t + request.ttl) =>
                            /\ memPending'[p] = Undefined
                            /\ memResult'[p].success
                            /\ memResult'[p].data = memResult[p].data
                            /\ memResult'[p].evidence.fromCache = TRUE]_vars

\* A search answered from the cache in the last millisecond of its TTL,
\* with the data of the second revision
C26_Witness ==
    /\ memNow = 300000
    /\ memResult["A"] # Undefined
    /\ memResult["A"].success
    /\ memResult["A"].evidence.fromCache
    /\ memResult["A"].data.revision = 2
    /\ \E e \in memStore : e.key = "search:acme" /\ e.expiresAt = 300000

\* C30 - whenever a call is answered from the cache (evidence.fromCache =
\* true), the evidence.apiUrl it reports is the URL of the request to the
\* API that populated the cache entry, for every endpoint, searchCompanies
\* with queries that differ only in letter case included.
C30_CachedApiUrlIsPopulatingUrl ==
    \A p \in Procs :
       (/\ memResult[p] # Undefined
        /\ memResult[p].success
        /\ memResult[p].evidence.fromCache) =>
          memResult[p].evidence.apiUrl = memResult[p].data.document
====
